---- MODULE Spec2Model ----
(***************************************************************************)
(* WhiteCatBot: the message pipeline (pipeline/__init__.py), its three     *)
(* handlers (video download, summary, AI) and the service router           *)
(* (service_router.py, video_services/__init__.py).                        *)
(*                                                                         *)
(* Spec       : MessagePipeline with abstract handlers (add_handler, run). *)
(* SpecRouter : ServiceRouter (add_service, remove_service, get_video_url) *)
(*              over services with their provider chains.                  *)
(* SpecBot    : one run of the pipeline load_handlers_from_env builds from *)
(*              the three handlers of handlers/, over one inbound message. *)
(* SpecService: one BaseService.get_video_url call on a service whose      *)
(*              providers load_providers_from_env built.                   *)
(* SpecTriggers: one TriggerRegistry.check_triggers call over the triggers *)
(*              load_triggers_from_env built.                              *)
(* SpecDiscovery: one load of the units of one kind (handlers, services,   *)
(*              providers or triggers) from classes with any declared      *)
(*              default priorities and any priority overrides.             *)
(* SpecRuns:    interleaved calls of MessagePipeline.run on one pipeline.  *)
(* SpecStores:  concurrent callers of add_message and get_history of the   *)
(*              HistoryManager and the ConversationManager.                *)
(***************************************************************************)
EXTENDS Integers, Sequences, FiniteSets, TLC

VARIABLES
    handlers,       \* MessagePipeline.handlers: the list run iterates
    stop_on_error,  \* MessagePipeline.stop_on_error
    pc,             \* position of the one run: idle, loop, gate, process, done, returned, raised
    idx,            \* 1-based position of the for loop of run in handlers
    ctx,            \* the PipelineContext of the run
    calls,          \* history: the handler calls run has made, in order
    result,         \* what run returned to its caller (None before it returns)
    services,       \* ServiceRouter.services: the list get_video_url iterates
    route,          \* history: the observed get_video_url call: its text, the
                    \* services it consulted and its result, with the provider
                    \* calls it made (result.log)
    update,         \* the inbound Update run is called with (update.message)
    bot,            \* state of the handler objects: summary_processor and
                    \* processor (None or not), the chat's summary history,
                    \* whether processor.process_message was called (asked)
    chat,           \* history: the replies sent to the chat, in order
    env,            \* the discovery and environment the observed units were
                    \* loaded from: scan order, credentials, priority overrides
    triggers,       \* TriggerRegistry.triggers: the list check_triggers iterates
    check,          \* history: the observed check_triggers call: its result, with
                    \* the should_trigger and extract calls it made (result.log)
    contexts,       \* the PipelineContext objects constructed so far
    runs,           \* the concurrent calls of MessagePipeline.run: where each
                    \* is, the context it holds, and what it did itself
    stores,         \* HistoryManager and ConversationManager: the lock and the
                    \* deque of the chat, with the appends made so far
    callers         \* the concurrent callers of add_message and get_history

pipeVars == <<handlers, stop_on_error, pc, idx, ctx, calls, result>>

routerVars == <<services, route>>

botVars == <<update, bot, chat>>

triggerVars == <<triggers, check>>

\* the concurrent runs and their contexts, the shared per-chat histories and
\* their concurrent callers
concVars == <<contexts, runs, stores, callers>>

vars == <<pipeVars, routerVars, botVars, env, triggerVars, concVars>>

(***************************************************************************)
(* Bounds                                                                  *)
(***************************************************************************)
\* number of abstract handler objects that can be registered
NumHandlers == 3

\* number of service classes (SERVICE_NAMEs)
NumServices == 2

\* most providers a service holds
MaxProviders == 2

\* number of trigger classes
NumTriggers == 3

\* number of classes of one kind a discovery scan finds
NumUnits == 3

\* number of interleaved calls of run, and of handlers in their pipeline
NumRuns == 2

NumRunHandlers == 2

\* number of concurrent callers of a shared history, the calls they make
\* together, and max_messages, the length of the rolling window
NumCallers == 2

MaxCalls == 3

MaxMessages == 2

\* number of provider classes of the service whose chain is observed
NumProviderClasses == 3

\* number of chat ids a manager is called with, and of add_message calls
NumChats == 2

MaxAppends == 3

\* number of (user, model) pairs the conversation window holds: the AI
\* handler builds ConversationManager(max_messages=50), 25 pairs
NumPairs == 1

None == "None"

(***************************************************************************)
(* PipelineContext                                                         *)
(***************************************************************************)
\* ctx.data is a mapping key -> value; Put is data[k] = v
Put(d, k, v) == [x \in (DOMAIN d) \cup {k} |-> IF x = k THEN v ELSE d[x]]

EmptyData == [x \in {} |-> None]

\* PipelineContext(update, context): should_continue defaults to True, data to {}
PipelineContext == [should_continue |-> TRUE, data |-> EmptyData]

\* PipelineContext.stop
Stop(c) == [c EXCEPT !.should_continue = FALSE]

(***************************************************************************)
(* Priority sort: list.sort(key=lambda x: x.priority, reverse=True), a     *)
(* stable sort, highest priority first, equal priorities in list order     *)
(***************************************************************************)
\* mutant of InsertByPriority: x is put before the elements of equal priority
RECURSIVE InsertBeforeEqual(_, _)
InsertBeforeEqual(x, sorted) ==
    IF sorted = <<>> THEN <<x>>
    ELSE IF sorted[1].priority > x.priority
         THEN <<sorted[1]>> \o InsertBeforeEqual(x, Tail(sorted))
         ELSE <<x>> \o sorted

\* x put behind every element of the sorted list whose priority is >= its own
RECURSIVE InsertByPriority(_, _)
InsertByPriority(x, sorted) ==
    IF sorted = <<>> THEN <<x>>
    ELSE IF sorted[1].priority >= x.priority
         THEN <<sorted[1]>> \o InsertByPriority(x, Tail(sorted))
         ELSE <<x>> \o sorted

\* mutant of SortByPriority: the sort is missing
SortMissing(s) == s

RECURSIVE SortByPriority(_)
SortByPriority(s) ==
    IF s = <<>> THEN <<>>
    ELSE InsertByPriority(s[Len(s)], SortByPriority(SubSeq(s, 1, Len(s) - 1)))

\* the orders in which a directory scan may list the members of S
Orders(S) ==
    {f \in [1..Cardinality(S) -> S] : \A i, j \in 1..Cardinality(S) : f[i] = f[j] => i = j}

(***************************************************************************)
(* Services and providers (video_services/__init__.py)                     *)
(***************************************************************************)
ServiceIds == 1..NumServices

\* DEFAULT_PRIORITY of the service classes: InstagramService 80,
\* TikTokService 70, any other BaseService 50
DefaultServicePriority(i) ==
    CASE i = 1 -> 80
      [] i = 2 -> 70
      [] OTHER -> 50

\* the k-th provider object of service i; BaseProvider.DEFAULT_PRIORITY
Provider(i, k) == [name |-> <<i, k>>, priority |-> 50]

\* a service object of class i holding n providers
Service(i, n) ==
    [name |-> i, priority |-> DefaultServicePriority(i),
     providers |-> [k \in 1..n |-> Provider(i, k)]]

ServiceObjects == {Service(i, n) : i \in ServiceIds, n \in 0..MaxProviders}

\* a message text, as the URL patterns see it: empty or not, and the
\* services whose URL_PATTERN finds a match in it
Texts ==
    {[empty |-> TRUE, matches |-> {}]}
        \cup {[empty |-> FALSE, matches |-> m] : m \in SUBSET ServiceIds}

NoUrl == [found |-> FALSE, of |-> 0]

\* BaseService.extract_url: the first match of the service's pattern, or None
ExtractUrl(s, text) ==
    IF text.empty THEN NoUrl
    ELSE IF s.name \in text.matches THEN [found |-> TRUE, of |-> s.name]
    ELSE NoUrl

\* what one provider.get_video_url(url) call may do: return a URL, return
\* None, return "", or raise
ProviderOutcomes == {"url", "none", "empty", "raise"}

\* the video URL provider p returns on success
VideoUrl(p, url) == [video_from |-> p.name, for_url |-> url.of]

\* BaseService.get_video_url returned None; raised tells whether the call was
\* left by an exception instead of a return
ServiceFail(log) ==
    [ok |-> FALSE, raised |-> FALSE, video_url |-> NoUrl, provider_num |-> 0,
     provider_name |-> <<>>, log |-> log]

\* BaseService.get_video_url, line 246: return (video_url, i, provider.name)
ServiceSuccess(p, url, i, log) ==
    [ok |-> TRUE, raised |-> FALSE, video_url |-> VideoUrl(p, url), provider_num |-> i,
     provider_name |-> p.name, log |-> log]

RECURSIVE ProviderChain(_, _, _, _)

\* mutant of AfterProvider: the try statement around the provider call is
\* missing, an exception of the provider leaves get_video_url
AfterProviderRaiseEscapes(s, url, i, log, o) ==
    LET p    == s.providers[i]
        log2 == Append(log, [provider |-> p.name, out |-> o])
    IN  IF o = "url" THEN {ServiceSuccess(p, url, i, log2)}
        ELSE IF o = "raise" THEN {[ServiceFail(log2) EXCEPT !.raised = TRUE]}
        ELSE ProviderChain(s, url, i + 1, log2)

\* BaseService.get_video_url, lines 239-251: provider i was called with
\* outcome o: a truthy URL is returned; None, "" and an exception are logged
\* and the loop goes on
AfterProvider(s, url, i, log, o) ==
    LET p    == s.providers[i]
        log2 == Append(log, [provider |-> p.name, out |-> o])
    IN  IF o = "url" THEN {ServiceSuccess(p, url, i, log2)}
        ELSE ProviderChain(s, url, i + 1, log2)

\* BaseService.get_video_url, lines 234-254: the provider loop from provider i
\* on; log is the provider calls made so far
ProviderChain(s, url, i, log) ==
    IF i > Len(s.providers) THEN {ServiceFail(log)}
    ELSE UNION {AfterProvider(s, url, i, log, o) : o \in ProviderOutcomes}

\* mutant of ServiceGetVideoUrl: the loop starts at the second provider
ServiceGetVideoUrlSkipsFirst(s, url, log) ==
    IF Len(s.providers) = 0 THEN {ServiceFail(log)}
    ELSE ProviderChain(s, url, 2, log)

\* BaseService.get_video_url: every outcome the call may have
ServiceGetVideoUrl(s, url, log) ==
    IF Len(s.providers) = 0 THEN {ServiceFail(log)}
    ELSE ProviderChain(s, url, 1, log)

(***************************************************************************)
(* ServiceRouter (service_router.py)                                       *)
(***************************************************************************)
NoMatch(log) ==
    [kind |-> "none", video_url |-> NoUrl, service_name |-> 0, provider_num |-> 0,
     provider_name |-> <<>>, log |-> log]

ProvidersFailed(log) ==
    [kind |-> "providers_failed", video_url |-> NoUrl, service_name |-> 0,
     provider_num |-> 0, provider_name |-> <<>>, log |-> log]

\* mutant of Resolved: the rank counts from 0
ResolvedZeroBased(s, r) ==
    [kind |-> "resolved", video_url |-> r.video_url, service_name |-> s.name,
     provider_num |-> r.provider_num - 1, provider_name |-> r.provider_name,
     log |-> r.log]

Resolved(s, r) ==
    [kind |-> "resolved", video_url |-> r.video_url, service_name |-> s.name,
     provider_num |-> r.provider_num, provider_name |-> r.provider_name, log |-> r.log]

RECURSIVE RouterLoop(_, _, _, _)

\* mutant of AfterService: a matched service whose providers all failed is
\* reported as no match
AfterServiceConflated(svcs, text, i, r) ==
    IF r.ok THEN {Resolved(svcs[i], r)} ELSE {NoMatch(r.log)}

\* get_video_url, lines 73-82: the matched service's result is returned, a
\* 4-tuple or "providers_failed"
AfterService(svcs, text, i, r) ==
    IF r.ok THEN {Resolved(svcs[i], r)} ELSE {ProvidersFailed(r.log)}

\* get_video_url, lines 58-88: the service loop from service i on
RouterLoop(svcs, text, i, log) ==
    IF i > Len(svcs) THEN {NoMatch(log)}
    ELSE LET url == ExtractUrl(svcs[i], text)
         IN  IF url.found
             THEN UNION {AfterService(svcs, text, i, r) :
                            r \in ServiceGetVideoUrl(svcs[i], url, log)}
             ELSE RouterLoop(svcs, text, i + 1, log)

\* ServiceRouter.get_video_url: every outcome the call may have
RouterGetVideoUrl(svcs, text) ==
    IF text.empty THEN {NoMatch(<<>>)} ELSE RouterLoop(svcs, text, 1, <<>>)

\* get_video_url, lines 58-63: the services whose extract_url the loop calls,
\* from service i on, in call order: up to the first one that matches
RECURSIVE ConsultedFrom(_, _, _)
ConsultedFrom(svcs, text, i) ==
    IF i > Len(svcs) THEN <<>>
    ELSE <<svcs[i]>> \o (IF ExtractUrl(svcs[i], text).found THEN <<>>
                         ELSE ConsultedFrom(svcs, text, i + 1))

\* the services one get_video_url(text) call consults
Consulted(svcs, text) == IF text.empty THEN <<>> ELSE ConsultedFrom(svcs, text, 1)

\* load_services_from_env: the service classes in scan order, each with the
\* providers its environment gives it; services without providers are
\* skipped, the rest sorted by priority
LoadServices(order, nprov) ==
    LET built == [k \in 1..Len(order) |-> Service(order[k], nprov[order[k]])]
        HasProviders(s) == Len(s.providers) > 0
    IN  SortByPriority(SelectSeq(built, HasProviders))

\* get_video_url has not been called
NoCall ==
    [called |-> FALSE, text |-> [empty |-> TRUE, matches |-> {}], consulted |-> <<>>,
     result |-> [kind |-> "none", video_url |-> [found |-> FALSE, of |-> 0],
                 service_name |-> 0, provider_num |-> 0, provider_name |-> <<>>,
                 log |-> <<>>]]

(***************************************************************************)
(* Abstract handlers: any PipelineHandler subclass.  A handler object has  *)
(* a name and a priority; what its gate and its process do is open.        *)
(***************************************************************************)
GenericHandler(i) == [name |-> "generic", id |-> i, priority |-> 10 * i]

GenericHandlers == {GenericHandler(i) : i \in 1..NumHandlers}

\* should_process(ctx) of an abstract handler: returns True or False, or raises.
\* A gate decides participation; it leaves the context alone.
GenericGateOutcomes(c) ==
    {[ret |-> r, data |-> c.data, bot |-> bot] : r \in {"true", "false", "raise"}}

\* process(ctx) of an abstract handler: it records its work in ctx.data, may
\* call ctx.stop(), and returns or raises.  What it sends to the chat is not
\* looked at.
GenericProcessOutcomes(c) ==
    {[raised |-> r, stop |-> s, data |-> Put(c.data, "handled", "yes"), replies |-> <<>>,
      ai_call |-> FALSE, route |-> NoCall] :
        r \in BOOLEAN, s \in BOOLEAN}

(***************************************************************************)
(* Triggers and the TriggerRegistry (ai_handler_pipeline/triggers,         *)
(* ai_handler_pipeline/trigger_registry.py)                                *)
(***************************************************************************)
TriggerIds == 1..NumTriggers

\* DEFAULT_PRIORITY of the trigger classes: CommandTrigger 80, MentionTrigger
\* 70, ReplyTrigger 60, any other BaseTrigger 50
DefaultTriggerPriority(i) ==
    CASE i = 1 -> 80
      [] i = 2 -> 70
      [] i = 3 -> 60
      [] OTHER -> 50

\* a trigger object of class i
Trigger(i) == [name |-> i, priority |-> DefaultTriggerPriority(i)]

\* load_triggers_from_env: the trigger classes in scan order; a disabled one
\* is skipped, the list is sorted; the priority is the class default
LoadTriggers(order, enabled) ==
    LET Enabled(i) == i \in enabled
        kept == SelectSeq(order, Enabled)
    IN  SortByPriority([n \in 1..Len(kept) |-> Trigger(kept[n])])

\* what should_trigger(message) may do: return True or False, or raise
ShouldTriggerOutcomes == {"true", "false", "raise"}

\* what extract_user_message(text) may do: return a payload, return "",
\* return None, or raise
ExtractOutcomes == {"payload", "empty", "none", "raise"}

\* check_triggers returned (trigger, user_message)
TriggerMatched(t, payload, log) ==
    [matched |-> TRUE, trigger |-> t.name, payload |-> payload, log |-> log,
     raised |-> FALSE]

\* check_triggers returned None
NoTrigger(log) ==
    [matched |-> FALSE, trigger |-> 0, payload |-> "", log |-> log, raised |-> FALSE]

\* an exception left check_triggers
TriggerRaised(log) ==
    [matched |-> FALSE, trigger |-> 0, payload |-> "", log |-> log, raised |-> TRUE]

\* mutant of UserMessage: the extractor's None is returned as it is
UserMessageUnconverted(e) ==
    IF e = "payload" THEN "payload" ELSE IF e = "none" THEN None ELSE ""

\* check_triggers, lines 81-86: the user_message returned with the trigger
\* for the extractor's result e: the payload itself, "" for None
UserMessage(e) == IF e = "payload" THEN "payload" ELSE ""

RECURSIVE TriggerLoop(_, _, _)

\* mutant of AfterTriggerError: the exception is not caught
AfterTriggerErrorPropagates(ts, i, log) == {TriggerRaised(log)}

\* check_triggers, lines 88-89: the except clause logs the exception of
\* trigger i and the for loop goes on with the next trigger
AfterTriggerError(ts, i, log) == TriggerLoop(ts, i + 1, log)

\* mutant of AfterExtract: an extractor returning None counts as no match and
\* the loop goes on
AfterExtractNoneGoesOn(ts, i, log, e) ==
    IF e = "raise" THEN AfterTriggerError(ts, i, log)
    ELSE IF e = "none" THEN TriggerLoop(ts, i + 1, log)
    ELSE {TriggerMatched(ts[i], UserMessage(e), log)}

\* check_triggers, lines 80-89: trigger i matched and its extractor was called
\* with outcome e: a payload is returned with the trigger, None becomes "";
\* an exception is logged and the loop goes on
AfterExtract(ts, i, log, e) ==
    IF e = "raise" THEN AfterTriggerError(ts, i, log)
    ELSE {TriggerMatched(ts[i], UserMessage(e), log)}

\* check_triggers, lines 75-92: the trigger loop from trigger i on; log is the
\* should_trigger and extract calls made so far
TriggerLoop(ts, i, log) ==
    IF i > Len(ts) THEN {NoTrigger(log)}
    ELSE UNION {
            LET log1 == Append(log, [trigger |-> ts[i].name, op |-> "should_trigger",
                                     out |-> st])
            IN  IF st = "true"
                THEN UNION {AfterExtract(ts, i,
                                Append(log1, [trigger |-> ts[i].name, op |-> "extract",
                                              out |-> e]), e) : e \in ExtractOutcomes}
                ELSE IF st = "raise" THEN AfterTriggerError(ts, i, log1)
                ELSE TriggerLoop(ts, i + 1, log1)
            : st \in ShouldTriggerOutcomes}

\* TriggerRegistry.check_triggers(message): None for a message without text
RegistryCheckTriggers(ts, has_text) ==
    IF ~has_text THEN {NoTrigger(<<>>)} ELSE TriggerLoop(ts, 1, <<>>)

\* check_triggers has not been called
NoCheck == [called |-> FALSE, has_text |-> FALSE, result |-> NoTrigger(<<>>)]

\* no trigger registry is looked at
NoTriggers == triggers = <<>> /\ check = NoCheck

\* no concurrent run and no caller of the shared histories is looked at
NoConcurrency == contexts = <<>> /\ runs = <<>> /\ stores = <<>> /\ callers = <<>>

(***************************************************************************)
(* The inbound message and the state of the handler objects                *)
(***************************************************************************)
NoText == [empty |-> TRUE, matches |-> {}]

\* update.message is None
NoMessage ==
    [present |-> FALSE, content |-> "none", text |-> NoText, keyword |-> FALSE,
     trigger |-> "none", from_user |-> FALSE, forwarded |-> FALSE]

\* a message text: without a video URL, or with a URL of service 1
MessageTexts == {[empty |-> FALSE, matches |-> m] : m \in {{}, {1}}}

\* update.message, by what the handlers look at: whether it carries text, a
\* caption or neither (content); for a text, the URL patterns it matches
\* and what check_triggers finds in it (no trigger: "none"; else what the
\* matching trigger's extractor returns: "", None ("null"), a payload);
\* whether text or caption contain a
\* summary keyword; whether from_user and forward_origin are set
Messages ==
    {NoMessage}
    \cup {[present |-> TRUE, content |-> "text", text |-> t, keyword |-> kw,
           trigger |-> tr, from_user |-> fu, forwarded |-> fw] :
            t \in MessageTexts, kw \in BOOLEAN, tr \in {"none", "empty", "null", "payload"},
            fu \in BOOLEAN, fw \in BOOLEAN}
    \cup {[present |-> TRUE, content |-> co, text |-> NoText,
           keyword |-> (kw /\ co = "caption"),
           trigger |-> "none", from_user |-> fu, forwarded |-> fw] :
            co \in {"caption", "none"}, kw \in BOOLEAN, fu \in BOOLEAN, fw \in BOOLEAN}

\* PipelineContext.message
Message == update.message

\* PipelineContext.message_text: message.text, None without a message; the
\* empty text stands for None
MessageText ==
    IF Message.present /\ Message.content = "text" THEN Message.text ELSE NoText

\* the calls to Telegram and to the Gemini API return or raise
CallOutcomes == {"ok", "raise"}

\* process returned / raised, having called ctx.stop() or not, having left d
\* in ctx.data and having sent replies to the chat; ai_call: whether it called
\* GeminiProcessor.process_message; route: the get_video_url call it made
Ret(d, stop, replies) ==
    [raised |-> FALSE, stop |-> stop, data |-> d, replies |-> replies, ai_call |-> FALSE,
     route |-> NoCall]

Raise(d, stop, replies) ==
    [raised |-> TRUE, stop |-> stop, data |-> d, replies |-> replies, ai_call |-> FALSE,
     route |-> NoCall]

\* should_process returned r ("true", "false") or raised ("raise")
Gate(r, d, b) == [ret |-> r, data |-> d, bot |-> b]

(***************************************************************************)
(* VideoDownloadHandler (handlers/video_download_handler.py wrapping       *)
(* video_pipeline/handler.py)                                              *)
(***************************************************************************)
\* the wrapper builds VideoHandler() with the default stop_on_no_url
stop_on_no_url == FALSE

\* download_video: (None, error_type) on failure
DownloadErrors == {"not_found", "too_large", "download_failed"}

\* the wrapper does not override should_process: PipelineHandler's default
VideoGateOutcomes(c) == {Gate("true", c.data, bot)}

\* process, lines 169-175: the except clause: reply_text, then video_error and
\* ctx.stop(); a reply_text that raises leaves process
VideoExcept(d) ==
    {Ret(Put(d, "video_error", "exception"), TRUE, <<"error">>),
     Raise(d, FALSE, <<>>)}

\* process, lines 120-142: the download failed: reply_text, ctx.stop(), return
VideoDownloadFailed(d) ==
    UNION {LET d2 == Put(d, "video_error", e)
           IN  {Ret(d2, TRUE, <<e>>)} \cup VideoExcept(d2) : e \in DownloadErrors}

\* process, lines 144-167: the download succeeded: reply_video, video_sent,
\* ctx.stop()
VideoDownloaded(d) ==
    LET d3 == Put(Put(d, "video_downloaded", "True"), "video_size", "nbytes")
    IN  {Ret(Put(d3, "video_sent", "True"), TRUE, <<"video">>)} \cup VideoExcept(d3)

\* process, lines 96-167: a resolved URL: the data writes, then under try
\* send_chat_action, download_video and the reply
VideoResolved(c, r) ==
    LET d1 == Put(Put(Put(Put(Put(c.data, "video_url_found", "True"),
                "video_url", r.video_url), "service_name", r.service_name),
                "provider_num", r.provider_num), "provider_name", r.provider_name)
    IN  VideoExcept(d1) \cup VideoDownloadFailed(d1) \cup VideoDownloaded(d1)

\* process, lines 83-94: reply_text outside any try, then video_error and
\* ctx.stop()
VideoProvidersFailed(c) ==
    {Ret(Put(c.data, "video_error", "providers_failed"), TRUE, <<"providers_failed">>),
     Raise(c.data, FALSE, <<>>)}

\* mutant of VideoNoUrl: ctx.stop() is called as if stop_on_no_url were set
VideoNoUrlStops(c) == {Ret(Put(c.data, "video_url_found", "False"), TRUE, <<>>)}

\* process, lines 75-80: no URL: video_url_found = False, no reply
VideoNoUrl(c) == {Ret(Put(c.data, "video_url_found", "False"), stop_on_no_url, <<>>)}

\* process, lines 73-96: what process does with the router's result r
VideoAfterRoute(c, r) ==
    CASE r.kind = "none"             -> VideoNoUrl(c)
      [] r.kind = "providers_failed" -> VideoProvidersFailed(c)
      [] r.kind = "resolved"         -> VideoResolved(c, r)

\* process, line 73: self.service_router.get_video_url(text) returned r
VideoRouted(o, text, r) ==
    [o EXCEPT !.route = [called |-> TRUE, text |-> text, result |-> r,
                         consulted |-> Consulted(services, text)]]

\* VideoDownloadHandler.process
VideoProcessOutcomes(c) ==
    IF ~Message.present \/ MessageText.empty THEN {Ret(c.data, FALSE, <<>>)}
    ELSE UNION {{VideoRouted(o, MessageText, r) : o \in VideoAfterRoute(c, r)} :
                    r \in RouterGetVideoUrl(services, MessageText)}

(***************************************************************************)
(* SummaryHandler (handlers/summary_handler.py wrapping                    *)
(* ai_summary_pipeline/handler.py) and its HistoryManager                  *)
(***************************************************************************)
MESSAGE_HISTORY_LIMIT == 200

\* HistoryManager.add_message: append to the chat's deque(maxlen), which
\* drops its oldest entry when full
AddMessage(history, m) ==
    LET s == Append(history, m)
    IN  IF Len(s) > MESSAGE_HISTORY_LIMIT THEN Tail(s) ELSE s

\* HistoryManager.get_history: the last `limit` entries, oldest first
GetHistory(history, limit) ==
    IF limit > 0 /\ limit < Len(history)
    THEN SubSeq(history, Len(history) - limit + 1, Len(history))
    ELSE history

\* the entry should_process stores for message m
StoredMessage(m) ==
    [content |-> m.content, keyword |-> m.keyword, is_forwarded |-> m.forwarded]

\* should_process: False without message, processor or text; a trigger
\* message returns True and is not stored; any other is stored (reading
\* from_user of a message that is not forwarded) and returns False
SummaryGateOutcomes(c) ==
    IF ~Message.present THEN {Gate("false", c.data, bot)}
    ELSE IF ~bot.summary_processor THEN {Gate("false", c.data, bot)}
    ELSE IF Message.content = "none" THEN {Gate("false", c.data, bot)}
    ELSE IF Message.keyword THEN {Gate("true", c.data, bot)}
    ELSE IF ~Message.forwarded /\ ~Message.from_user THEN {Gate("raise", c.data, bot)}
    ELSE {Gate("false", c.data,
               [bot EXCEPT !.history = AddMessage(@, StoredMessage(Message))])}

\* mutant of SummaryDone: the final ctx.stop() is missing
SummaryDoneNoStop(d, replies) == Ret(d, FALSE, replies)

\* process, lines 158-159: after the try statement: ctx.stop()
SummaryDone(d, replies) == Ret(d, TRUE, replies)

\* process, lines 152-156: the except clause: reply_text; a reply_text that
\* raises leaves process
SummaryExcept(d) == {SummaryDone(d, <<"sorry">>), Raise(d, FALSE, <<>>)}

\* SummaryProcessingHandler.process: under try send_chat_action, get_history,
\* the "No messages" reply with ctx.stop() and return, or generate_summary
\* and the reply
SummaryProcessOutcomes(c) ==
    SummaryExcept(c.data)
    \cup IF GetHistory(bot.history, MESSAGE_HISTORY_LIMIT) = <<>>
         THEN {Ret(c.data, TRUE, <<"no_messages">>)}
         ELSE {SummaryDone(c.data, <<"summary">>)}

(***************************************************************************)
(* AIHandler (handlers/ai_handler.py wrapping ai_handler_pipeline)         *)
(***************************************************************************)
\* what the extractor of the trigger matching m returns
Extracted(m) == IF m.trigger = "null" THEN "none" ELSE m.trigger

\* TriggerRegistry.check_triggers: None without text or without a matching
\* trigger, else the trigger and its payload, "" when the extractor gave None
CheckTriggers(m) ==
    IF ~m.present \/ m.content # "text" \/ m.trigger = "none"
    THEN [matched |-> FALSE, payload |-> ""]
    ELSE [matched |-> TRUE, payload |-> UserMessage(Extracted(m))]

\* should_process: False without text or processor; a matching trigger is
\* stored in ctx.data and the gate returns True
AIGateOutcomes(c) ==
    IF MessageText.empty THEN {Gate("false", c.data, bot)}
    ELSE IF ~bot.processor THEN {Gate("false", c.data, bot)}
    ELSE LET t == CheckTriggers(Message)
         IN  IF t.matched
             THEN {Gate("true", Put(Put(c.data, "ai_trigger", "trigger"),
                                    "ai_user_message", t.payload), bot)}
             ELSE {Gate("false", c.data, bot)}

\* mutant of AIDone: the final ctx.stop() is missing
AIDoneNoStop(d, replies) == Ret(d, FALSE, replies)

\* process, lines 122-123: after the try statement: ctx.stop()
AIDone(d, replies) == Ret(d, TRUE, replies)

\* process, lines 115-120: the except clause: reply_text; a reply_text that
\* raises leaves process
AIExcept(d) == {AIDone(d, <<"sorry">>), Raise(d, FALSE, <<>>)}

\* process, line 109: self.processor.process_message was called
AICall(o) == [o EXCEPT !.ai_call = TRUE]

\* process, lines 97-123: the try statement: send_chat_action raises, or
\* process_message is called and either it or the reply raises, or the
\* answer is sent
AIAnswer(d) ==
    AIExcept(d) \cup {AICall(o) : o \in {AIDone(d, <<"answer">>)} \cup AIExcept(d)}

\* mutant of AIHelp: the empty payload is sent to the AI like any other
AIHelpConflated(d) == AIAnswer(d)

\* process, lines 86-95: the payload is empty: the help reply, ctx.stop(),
\* return; a reply_text that raises leaves process
AIHelp(d) == {Ret(d, TRUE, <<"help">>), Raise(d, FALSE, <<>>)}

\* AIProcessingHandler.process
AIProcessOutcomes(c) ==
    IF "ai_user_message" \notin DOMAIN c.data \/ c.data["ai_user_message"] = None
    THEN {Ret(c.data, TRUE, <<>>)}
    ELSE IF ~Message.from_user THEN {Raise(c.data, FALSE, <<>>)}
    ELSE IF c.data["ai_user_message"] = "" THEN AIHelp(c.data)
    ELSE AIAnswer(c.data)

(***************************************************************************)
(* Dispatch on the handler's class                                         *)
(***************************************************************************)
GateOutcomes(h, c) ==
    CASE h.name = "VIDEO_DOWNLOAD"  -> VideoGateOutcomes(c)
      [] h.name = "SUMMARY_HANDLER" -> SummaryGateOutcomes(c)
      [] h.name = "AI_HANDLER"      -> AIGateOutcomes(c)
      [] OTHER                      -> GenericGateOutcomes(c)

ProcessOutcomes(h, c) ==
    CASE h.name = "VIDEO_DOWNLOAD"  -> VideoProcessOutcomes(c)
      [] h.name = "SUMMARY_HANDLER" -> SummaryProcessOutcomes(c)
      [] h.name = "AI_HANDLER"      -> AIProcessOutcomes(c)
      [] OTHER                      -> GenericProcessOutcomes(c)

(***************************************************************************)
(* MessagePipeline                                                         *)
(***************************************************************************)
\* MessagePipeline.add_handler: append, whatever the handler's priority
AddHandler(h) ==
    /\ pc = "idle"
    /\ \A k \in 1..Len(handlers) : handlers[k] # h
    /\ handlers' = Append(handlers, h)
    /\ UNCHANGED <<stop_on_error, pc, idx, ctx, calls, result, routerVars, botVars, env, triggerVars, concVars>>

\* run, line 189: a fresh context, then the loop
RunStart ==
    /\ pc = "idle"
    /\ pc' = "loop"
    /\ idx' = 1
    /\ ctx' = PipelineContext
    /\ UNCHANGED <<handlers, stop_on_error, calls, result, routerVars, botVars, env, triggerVars, concVars>>

\* mutant of Current: the loop walks the list from its end
CurrentReversed == handlers[Len(handlers) + 1 - idx]

\* run, line 194: the element the for loop is at
Current == handlers[idx]

\* mutant of LoopBreaks: the should_continue check is missing
LoopNeverBreaks(c) == FALSE

\* run, line 195: `if not ctx.should_continue: break`
LoopBreaks(c) == ~c.should_continue

\* mutant of AfterGate: the `continue` after a False gate is missing
AfterGateFallsThrough(ret) == "process"

\* run, lines 202-204: the gate returned; False skips the handler (continue)
AfterGate(ret) == IF ret = "true" THEN "process" ELSE "continue"

\* mutant of AfterGateError: a raising gate stops the context as a raising
\* process does
AfterGateErrorStops(c) ==
    [ctx |-> Stop(c), next |-> IF stop_on_error THEN "break" ELSE "continue"]

\* mutant of AfterGateError: the except clause re-raises
AfterGateErrorPropagates(c) == [ctx |-> c, next |-> "propagate"]

\* run, lines 205-209: the gate raised; break under stop_on_error, else continue
AfterGateError(c) ==
    [ctx |-> c, next |-> IF stop_on_error THEN "break" ELSE "continue"]

\* run, lines 214-215: process returned; the loop goes on
AfterProcess(c) == [ctx |-> c, next |-> "continue"]

\* mutant of AfterProcessError: break without ctx.stop(), as the gate's
\* except clause does
AfterProcessErrorNoStop(c) ==
    [ctx |-> c, next |-> IF stop_on_error THEN "break" ELSE "continue"]

\* run, lines 216-220: process raised; ctx.stop() and break under stop_on_error
AfterProcessError(c) ==
    IF stop_on_error
    THEN [ctx |-> Stop(c), next |-> "break"]
    ELSE [ctx |-> c, next |-> "continue"]

\* where run is after a step of the loop body: `continue` takes the next
\* element, `break` leaves the loop, "process" goes on to the process call,
\* "propagate" is an exception leaving run
Goto(next) ==
    CASE next = "continue"  -> pc' = "loop" /\ idx' = idx + 1
      [] next = "break"     -> pc' = "done" /\ idx' = idx
      [] next = "process"   -> pc' = "process" /\ idx' = idx
      [] next = "propagate" -> pc' = "raised" /\ idx' = idx

\* run, lines 194-197: the for loop's next element and the should_continue check
LoopCheck ==
    /\ pc = "loop"
    /\ pc' = IF idx > Len(handlers) THEN "done"
             ELSE IF LoopBreaks(ctx) THEN "done"
             ELSE "gate"
    /\ UNCHANGED <<handlers, stop_on_error, idx, ctx, calls, result, routerVars, botVars, env, triggerVars, concVars>>

\* run, lines 199-209: the gate call and what run does with its outcome
ShouldProcess ==
    /\ pc = "gate"
    /\ \E out \in GateOutcomes(Current, ctx) :
        LET after == [ctx EXCEPT !.data = out.data]
            step  == IF out.ret = "raise"
                     THEN AfterGateError(after)
                     ELSE [ctx |-> after, next |-> AfterGate(out.ret)]
        IN  /\ calls' = Append(calls, [op |-> "gate", h |-> Current,
                                       out |-> out.ret, stop |-> FALSE])
            /\ ctx' = step.ctx
            /\ bot' = out.bot
            /\ Goto(step.next)
    /\ UNCHANGED <<handlers, stop_on_error, result, routerVars, update, chat, env, triggerVars, concVars>>

\* run, lines 211-220: the process call and what run does with its outcome
Process ==
    /\ pc = "process"
    /\ \E out \in ProcessOutcomes(Current, ctx) :
        LET after == [should_continue |-> ctx.should_continue /\ ~out.stop,
                      data |-> out.data]
            step  == IF out.raised THEN AfterProcessError(after) ELSE AfterProcess(after)
        IN  /\ calls' = Append(calls, [op |-> "process", h |-> Current,
                                       out |-> IF out.raised THEN "raise" ELSE "return",
                                       stop |-> out.stop])
            /\ ctx' = step.ctx
            /\ chat' = chat \o [k \in 1..Len(out.replies) |->
                                    [by |-> Current.name, what |-> out.replies[k]]]
            /\ bot' = [bot EXCEPT !.asked = @ \/ out.ai_call]
            /\ route' = IF out.route.called THEN out.route ELSE route
            /\ Goto(step.next)
    /\ UNCHANGED <<handlers, stop_on_error, result, services, update, env, triggerVars, concVars>>

\* run, lines 222-223: return ctx
RunReturn ==
    /\ pc = "done"
    /\ pc' = "returned"
    /\ result' = ctx
    /\ UNCHANGED <<handlers, stop_on_error, idx, ctx, calls, routerVars, botVars, env, triggerVars, concVars>>

(***************************************************************************)
(* The bot: the pipeline of the handlers load_handlers_from_env returns    *)
(***************************************************************************)
\* no load is observed
NoEnv == [order |-> <<>>, keyed |-> {}, override |-> <<>>]

\* no inbound message is looked at, no load is observed
NoBot ==
    /\ update = [message |-> NoMessage]
    /\ bot = [summary_processor |-> FALSE, processor |-> FALSE, history |-> <<>>,
              asked |-> FALSE]
    /\ chat = <<>>
    /\ env = NoEnv
    /\ NoTriggers
    /\ NoConcurrency

\* no router is looked at
NoRouter == services = <<>> /\ route = NoCall

Init ==
    /\ handlers = <<>>
    /\ stop_on_error \in BOOLEAN
    /\ pc = "idle"
    /\ idx = 0
    /\ ctx = PipelineContext
    /\ calls = <<>>
    /\ result = None
    /\ NoRouter
    /\ NoBot

Next ==
    \/ \E h \in GenericHandlers : AddHandler(h)
    \/ RunStart
    \/ LoopCheck
    \/ ShouldProcess
    \/ Process
    \/ RunReturn

Spec == Init /\ [][Next]_vars

\* ServiceRouter.get_video_url(text)
GetVideoUrl(text) ==
    /\ ~route.called
    /\ \E r \in RouterGetVideoUrl(services, text) :
        route' = [called |-> TRUE, text |-> text, result |-> r,
                  consulted |-> Consulted(services, text)]
    /\ UNCHANGED <<services, pipeVars, botVars, env, triggerVars, concVars>>

\* ServiceRouter.add_service: append to the end of the list
AddService(s) ==
    /\ ~route.called
    /\ Len(services) < NumServices
    /\ \A k \in 1..Len(services) : services[k] # s
    /\ services' = Append(services, s)
    /\ route' = route
    /\ UNCHANGED <<pipeVars, botVars, env, triggerVars, concVars>>

\* the list without its i-th element: list.pop(i)
Pop(s, i) == SubSeq(s, 1, i - 1) \o SubSeq(s, i + 1, Len(s))

\* ServiceRouter.remove_service(service_name): the list after the call and
\* the value returned; the first service of that name is popped
RouterRemoveService(svcs, name) ==
    IF \E i \in 1..Len(svcs) : svcs[i].name = name
    THEN LET i == CHOOSE i \in 1..Len(svcs) :
                    /\ svcs[i].name = name
                    /\ \A j \in 1..(i - 1) : svcs[j].name # name
         IN  [services |-> Pop(svcs, i), result |-> TRUE]
    ELSE [services |-> svcs, result |-> FALSE]

\* a call of ServiceRouter.remove_service
RemoveService(name) ==
    /\ ~route.called
    /\ services' = RouterRemoveService(services, name).services
    /\ route' = route
    /\ UNCHANGED <<pipeVars, botVars, env, triggerVars, concVars>>

\* no pipeline is looked at
NoPipeline ==
    /\ handlers = <<>>
    /\ stop_on_error = TRUE
    /\ pc = "idle"
    /\ idx = 0
    /\ ctx = PipelineContext
    /\ calls = <<>>
    /\ result = None

\* ServiceRouter(load_services_from_env()): load raises when no service could
\* be initialised, so the router starts with one service at least
InitRouter ==
    /\ NoPipeline
    /\ \E order \in Orders(ServiceIds), nprov \in [ServiceIds -> 0..MaxProviders] :
        /\ LoadServices(order, nprov) # <<>>
        /\ services = LoadServices(order, nprov)
    /\ route = NoCall
    /\ NoBot

NextRouter ==
    \/ \E text \in Texts : GetVideoUrl(text)
    \/ \E s \in ServiceObjects : AddService(s)
    \/ \E n \in ServiceIds : RemoveService(n)

SpecRouter == InitRouter /\ [][NextRouter]_vars

\* HANDLER_NAME of the classes in handlers/
HandlerNames == {"VIDEO_DOWNLOAD", "SUMMARY_HANDLER", "AI_HANDLER"}

\* mutant of DefaultHandlerPriority: the AI handler is above the summary
\* handler
DefaultHandlerPriorityAIFirst(n) ==
    CASE n = "VIDEO_DOWNLOAD"  -> 100
      [] n = "SUMMARY_HANDLER" -> 80
      [] n = "AI_HANDLER"      -> 90
      [] OTHER                 -> 50

\* DEFAULT_PRIORITY of the classes in handlers/
DefaultHandlerPriority(n) ==
    CASE n = "VIDEO_DOWNLOAD"  -> 100
      [] n = "SUMMARY_HANDLER" -> 90
      [] n = "AI_HANDLER"      -> 80
      [] OTHER                 -> 50

\* {HANDLER_NAME}_PRIORITY: unset, or an integer
NoOverride == [set |-> FALSE, value |-> 0]

PriorityOverrides == {NoOverride, [set |-> TRUE, value |-> 0]}

\* max(0, min(100, p))
Clamp(p) == IF p < 0 THEN 0 ELSE IF p > 100 THEN 100 ELSE p

\* load_handlers_from_env: the classes in scan order; a disabled one is
\* skipped, an override replaces the default priority, the list is sorted
LoadHandlers(order, enabled, override) ==
    LET Enabled(n) == n \in enabled
        kept == SelectSeq(order, Enabled)
        Priority(n) == IF override[n].set THEN Clamp(override[n].value)
                       ELSE DefaultHandlerPriority(n)
    IN  SortByPriority([k \in 1..Len(kept) |->
                            [name |-> kept[k], id |-> 0, priority |-> Priority(kept[k])]])

\* the services of the video handler's router: every service class with one
\* provider
BotServices == LoadServices([k \in ServiceIds |-> k], [i \in ServiceIds |-> 1])

\* an entry stored by an earlier message of the chat
EarlierMessage == [content |-> "text", keyword |-> FALSE, is_forwarded |-> FALSE]

\* the pipeline after start-up and one inbound message
InitBot ==
    /\ \E order \in Orders(HandlerNames), enabled \in SUBSET HandlerNames,
          override \in [HandlerNames -> PriorityOverrides] :
            handlers = LoadHandlers(order, enabled, override)
    /\ stop_on_error \in BOOLEAN
    /\ pc = "idle"
    /\ idx = 0
    /\ ctx = PipelineContext
    /\ calls = <<>>
    /\ result = None
    /\ services = BotServices
    /\ route = NoCall
    /\ update \in {[message |-> m] : m \in Messages}
    /\ bot \in {[summary_processor |-> sp, processor |-> p, history |-> h,
                 asked |-> FALSE] :
                    sp \in BOOLEAN, p \in BOOLEAN, h \in {<<>>, <<EarlierMessage>>}}
    /\ chat = <<>>
    /\ env = NoEnv
    /\ NoTriggers
    /\ NoConcurrency

NextBot ==
    \/ RunStart
    \/ LoopCheck
    \/ ShouldProcess
    \/ Process
    \/ RunReturn

SpecBot == InitBot /\ [][NextBot]_vars

(***************************************************************************)
(* One service and its provider chain                                      *)
(***************************************************************************)
\* the provider classes discover_providers finds for the service
ProviderIds == 1..NumProviderClasses

\* load_providers_from_env of service i: the provider classes in scan order;
\* one without {PROVIDER_NAME}_API_KEY is skipped, {PROVIDER_NAME}_PRIORITY
\* replaces the default priority, the list is sorted
LoadProviders(i, order, keyed, override) ==
    LET Keyed(k) == k \in keyed
        kept == SelectSeq(order, Keyed)
        Priority(k) == IF override[k].set THEN Clamp(override[k].value)
                       ELSE Provider(i, k).priority
    IN  SortByPriority([n \in 1..Len(kept) |->
                            [name |-> Provider(i, kept[n]).name,
                             priority |-> Priority(kept[n])]])

\* service i after service.providers = service.load_providers_from_env()
LoadedService(i, order, keyed, override) ==
    [name |-> i, priority |-> DefaultServicePriority(i),
     providers |-> LoadProviders(i, order, keyed, override)]

\* a service as load_providers_from_env built it, before any call
InitService ==
    /\ NoPipeline
    /\ update = [message |-> NoMessage]
    /\ bot = [summary_processor |-> FALSE, processor |-> FALSE, history |-> <<>>,
              asked |-> FALSE]
    /\ chat = <<>>
    /\ \E order \in Orders(ProviderIds), keyed \in SUBSET ProviderIds,
          override \in [ProviderIds -> PriorityOverrides] :
            /\ env = [order |-> order, keyed |-> keyed, override |-> override]
            /\ services = <<LoadedService(1, order, keyed, override)>>
    /\ route = NoCall
    /\ NoTriggers
    /\ NoConcurrency

\* service.get_video_url(url) on the loaded service, for a URL of its own
ServiceCall ==
    /\ ~route.called
    /\ \E r \in ServiceGetVideoUrl(services[1], [found |-> TRUE, of |-> services[1].name], <<>>) :
        route' = [called |-> TRUE, text |-> [empty |-> FALSE, matches |-> {services[1].name}],
                  consulted |-> <<>>, result |-> r]
    /\ UNCHANGED <<services, pipeVars, botVars, env, triggerVars, concVars>>

NextService == ServiceCall

SpecService == InitService /\ [][NextService]_vars

(***************************************************************************)
(* The trigger registry of the AI handler                                  *)
(***************************************************************************)
\* TriggerRegistry(): the triggers load_triggers_from_env returns
InitTriggers ==
    /\ NoPipeline
    /\ NoRouter
    /\ update = [message |-> NoMessage]
    /\ bot = [summary_processor |-> FALSE, processor |-> FALSE, history |-> <<>>,
              asked |-> FALSE]
    /\ chat = <<>>
    /\ env = NoEnv
    /\ \E order \in Orders(TriggerIds), enabled \in SUBSET TriggerIds :
            triggers = LoadTriggers(order, enabled)
    /\ check = NoCheck
    /\ NoConcurrency

\* TriggerRegistry.check_triggers(message)
CheckTriggersCall(has_text) ==
    /\ ~check.called
    /\ \E r \in RegistryCheckTriggers(triggers, has_text) :
        check' = [called |-> TRUE, has_text |-> has_text, result |-> r]
    /\ UNCHANGED <<triggers, pipeVars, routerVars, botVars, env, concVars>>

NextTriggers == \E has_text \in BOOLEAN : CheckTriggersCall(has_text)

SpecTriggers == InitTriggers /\ [][NextTriggers]_vars

(***************************************************************************)
(* Discovery of the units of one kind, for classes with any declared       *)
(* default priority (pipeline/__init__.py, video_services/__init__.py,     *)
(* ai_handler_pipeline/triggers/__init__.py)                               *)
(***************************************************************************)
UnitIds == 1..NumUnits

\* the DEFAULT_PRIORITY values the discovered classes declare
UnitDefaults == {6, 50}

\* os.getenv of {NAME}_PRIORITY: None when unset, else the string
PriorityValues == {None, "", "5", "-5", "200", "abc"}

\* os.getenv of {NAME}_ENABLED: None when unset, else the string
EnabledValues == {None, "false", "FALSE"}

\* os.getenv of {NAME}_API_KEY: None when unset, else the string
ApiKeyValues == {None, "", "key"}

\* `if s:` for the result of os.getenv
Truthy(s) == s \notin {None, ""}

\* int(s) returns (it raises ValueError otherwise)
ParsesAsInt(s) == s \in {"5", "-5", "200"}

\* int(s)
IntValue(s) ==
    CASE s = "5"   -> 5
      [] s = "-5"  -> 0 - 5
      [] s = "200" -> 200

\* s.lower()
Lower(s) == IF s = "FALSE" THEN "false" ELSE s

\* a discovered class with its environment: the declared DEFAULT_PRIORITY,
\* whether its constructor raises, and the values of its variables
UnitConfig(d, raises, priority, enabled, api_key) ==
    [default |-> d, raises |-> raises, priority |-> priority, enabled |-> enabled,
     api_key |-> api_key]

\* a class that constructs, with a credential and no other variable set
PlainUnit(d) == UnitConfig(d, FALSE, None, None, "key")

\* the classes looked at: a plain one, or one that differs from it in its
\* priority variable, its enabled variable, its credential or its constructor
UnitConfigs ==
    UNION {{[PlainUnit(d) EXCEPT !.priority = v] : v \in PriorityValues}
           \cup {[PlainUnit(d) EXCEPT !.enabled = v] : v \in EnabledValues}
           \cup {[PlainUnit(d) EXCEPT !.api_key = v] : v \in ApiKeyValues}
           \cup {[PlainUnit(d) EXCEPT !.raises = TRUE]} : d \in UnitDefaults}

\* the unit built from class i with priority p
Unit(i, p) == [name |-> i, priority |-> p]

\* mutant of HandlerPriority: the override is used as it is
HandlerPriorityUnclamped(default, raw) ==
    IF Truthy(raw) /\ ParsesAsInt(raw) THEN IntValue(raw) ELSE default

\* load_handlers_from_env, lines 321-329: a non-empty {HANDLER_NAME}_PRIORITY
\* that is an integer replaces the handler's priority, clamped to 0..100; the
\* ValueError of any other value is caught
HandlerPriority(default, raw) ==
    IF Truthy(raw) /\ ParsesAsInt(raw) THEN Clamp(IntValue(raw)) ELSE default

\* BaseService._load_service_priority: the same for {SERVICE_NAME}_PRIORITY
ServicePriority(default, raw) ==
    IF Truthy(raw) /\ ParsesAsInt(raw) THEN Clamp(IntValue(raw)) ELSE default

\* load_providers_from_env, lines 194-201: the same for {PROVIDER_NAME}_PRIORITY
ProviderPriority(default, raw) ==
    IF Truthy(raw) /\ ParsesAsInt(raw) THEN Clamp(IntValue(raw)) ELSE default

\* load_triggers_from_env, lines 126-141: only {TRIGGER_NAME}_ENABLED is read;
\* the trigger keeps the priority BaseTrigger.__init__ gave it
TriggerPriority(default, raw) == default

\* load_handlers_from_env, lines 316-319:
\* os.getenv(enabled_env, "true").lower() == "false" skips the handler
HandlerEnabled(raw) == Lower(IF raw = None THEN "true" ELSE raw) # "false"

\* load_triggers_from_env, lines 135-138: the same for {TRIGGER_NAME}_ENABLED
TriggerEnabled(raw) == Lower(IF raw = None THEN "true" ELSE raw) # "false"

\* mutant of DiscoverHandlers: the first constructor that raises ends the load
DiscoverHandlersAborting(order, units) ==
    LET Raises(n) == units[order[n]].raises
        upto == IF \E n \in 1..Len(order) : Raises(n)
                THEN (CHOOSE n \in 1..Len(order) :
                        Raises(n) /\ \A m \in 1..(n - 1) : ~Raises(m)) - 1
                ELSE Len(order)
        Kept(i) == HandlerEnabled(units[i].enabled)
        kept == SelectSeq(SubSeq(order, 1, upto), Kept)
    IN  SortByPriority([n \in 1..Len(kept) |->
            Unit(kept[n], HandlerPriority(units[kept[n]].default, units[kept[n]].priority))])

\* load_handlers_from_env: each class in scan order is constructed; one whose
\* constructor raises or that is disabled is left out; the list is sorted
DiscoverHandlers(order, units) ==
    LET Kept(i) == ~units[i].raises /\ HandlerEnabled(units[i].enabled)
        kept == SelectSeq(order, Kept)
    IN  SortByPriority([n \in 1..Len(kept) |->
            Unit(kept[n], HandlerPriority(units[kept[n]].default, units[kept[n]].priority))])

\* load_services_from_env, lines 318-339: each class in scan order is
\* constructed and gets its providers; one whose constructor raises or that
\* has no provider with a credential is left out; the list is sorted;
\* {SERVICE_NAME}_ENABLED is not read
DiscoverServices(order, units) ==
    LET Kept(i) == ~units[i].raises /\ Truthy(units[i].api_key)
        kept == SelectSeq(order, Kept)
    IN  SortByPriority([n \in 1..Len(kept) |->
            Unit(kept[n], ServicePriority(units[kept[n]].default, units[kept[n]].priority))])

\* mutant of DiscoverProviders: a class without credential is constructed too
DiscoverProvidersWithoutKey(order, units) ==
    LET Kept(i) == ~units[i].raises
        kept == SelectSeq(order, Kept)
    IN  SortByPriority([n \in 1..Len(kept) |->
            Unit(kept[n], ProviderPriority(units[kept[n]].default, units[kept[n]].priority))])

\* load_providers_from_env: each class in scan order whose credential is set
\* and not empty is constructed with it; one whose constructor raises is left
\* out; the list is sorted; {PROVIDER_NAME}_ENABLED is not read
DiscoverProviders(order, units) ==
    LET Kept(i) == Truthy(units[i].api_key) /\ ~units[i].raises
        kept == SelectSeq(order, Kept)
    IN  SortByPriority([n \in 1..Len(kept) |->
            Unit(kept[n], ProviderPriority(units[kept[n]].default, units[kept[n]].priority))])

\* load_triggers_from_env: each class in scan order is constructed; one whose
\* constructor raises or that is disabled is left out; the list is sorted
DiscoverTriggers(order, units) ==
    LET Kept(i) == ~units[i].raises /\ TriggerEnabled(units[i].enabled)
        kept == SelectSeq(order, Kept)
    IN  SortByPriority([n \in 1..Len(kept) |->
            Unit(kept[n], TriggerPriority(units[kept[n]].default, units[kept[n]].priority))])

\* the classes a load constructed: load_providers_from_env constructs only
\* classes with a credential, the other loads construct every class
Constructed(kind, units) ==
    {i \in UnitIds : kind = "Provider" => Truthy(units[i].api_key)}

\* process start: the classes a scan finds (class i is the i-th found), what
\* they declare and the environment; nothing is loaded
InitDiscovery ==
    /\ NoPipeline
    /\ NoRouter
    /\ update = [message |-> NoMessage]
    /\ bot = [summary_processor |-> FALSE, processor |-> FALSE, history |-> <<>>,
              asked |-> FALSE]
    /\ chat = <<>>
    /\ NoTriggers
    /\ NoConcurrency
    /\ \E units \in [UnitIds -> UnitConfigs] :
            env = [order |-> [n \in UnitIds |-> n], units |-> units,
                   loaded |-> "nothing", loads |-> 0, before |-> <<>>,
                   constructed |-> {}, error |-> None]

\* a load of the given kind may run: nothing is loaded, or this kind was
\* loaded once
MayLoad(kind) == env.loads = 0 \/ (env.loads = 1 /\ env.loaded = kind)

\* the load of the given kind ran: before is the list of the load before it
AfterLoad(kind, list, error) ==
    [env EXCEPT !.loaded = kind, !.loads = @ + 1, !.before = list,
                !.constructed = Constructed(kind, env.units), !.error = error]

\* load_handlers_from_env()
LoadHandlersFromEnv ==
    /\ MayLoad("Handler")
    /\ handlers' = DiscoverHandlers(env.order, env.units)
    /\ env' = AfterLoad("Handler", handlers, None)
    /\ UNCHANGED <<stop_on_error, pc, idx, ctx, calls, result, routerVars, botVars, triggerVars, concVars>>

\* load_services_from_env(); lines 335-336: ValueError when no service is left
LoadServicesFromEnv ==
    /\ MayLoad("Service")
    /\ services' = DiscoverServices(env.order, env.units)
    /\ env' = AfterLoad("Service", services,
                        IF DiscoverServices(env.order, env.units) = <<>>
                        THEN "ValueError" ELSE None)
    /\ UNCHANGED <<pipeVars, route, botVars, triggerVars, concVars>>

\* service.providers = service.load_providers_from_env()
LoadProvidersFromEnv ==
    /\ MayLoad("Provider")
    /\ services' = <<[name |-> 1, priority |-> DefaultServicePriority(1),
                      providers |-> DiscoverProviders(env.order, env.units)]>>
    /\ env' = AfterLoad("Provider",
                        IF services = <<>> THEN <<>> ELSE services[1].providers, None)
    /\ UNCHANGED <<pipeVars, route, botVars, triggerVars, concVars>>

\* self.triggers = load_triggers_from_env()
LoadTriggersFromEnv ==
    /\ MayLoad("Trigger")
    /\ triggers' = DiscoverTriggers(env.order, env.units)
    /\ env' = AfterLoad("Trigger", triggers, None)
    /\ UNCHANGED <<pipeVars, routerVars, botVars, check, concVars>>

NextDiscovery ==
    \/ LoadHandlersFromEnv
    \/ LoadServicesFromEnv
    \/ LoadProvidersFromEnv
    \/ LoadTriggersFromEnv

SpecDiscovery == InitDiscovery /\ [][NextDiscovery]_vars

(***************************************************************************)
(* Interleaved calls of MessagePipeline.run on one pipeline: run is a      *)
(* coroutine, and another run may be scheduled at each of its awaits (the  *)
(* should_process and process calls)                                       *)
(***************************************************************************)
RunIds == 1..NumRuns

\* a call of run that has not started; ctx is the context it holds (0: none),
\* stopped and processed are what this run did to its context itself
IdleRun ==
    [pc |-> "idle", idx |-> 0, ctx |-> 0, stopped |-> FALSE, processed |-> FALSE,
     result |-> None]

\* mutant of NewContext: run keeps one context and uses it again
NewContextShared(heap) ==
    IF heap = <<>> THEN [heap |-> <<PipelineContext>>, ref |-> 1]
    ELSE [heap |-> heap, ref |-> 1]

\* run, line 189: PipelineContext(update=update, context=context) constructs a
\* new object; its data is a new dict (field(default_factory=dict))
NewContext(heap) == [heap |-> Append(heap, PipelineContext), ref |-> Len(heap) + 1]

\* the context run r holds
ContextOf(r) == contexts[runs[r].ctx]

\* run r after a step of the loop body (see Goto)
Moved(run, next) ==
    CASE next = "continue"  -> [run EXCEPT !.pc = "loop", !.idx = @ + 1]
      [] next = "break"     -> [run EXCEPT !.pc = "done"]
      [] next = "process"   -> [run EXCEPT !.pc = "process"]
      [] next = "propagate" -> [run EXCEPT !.pc = "raised"]

\* a pipeline of abstract handlers, and no run has started
InitRuns ==
    /\ handlers = [n \in 1..NumRunHandlers |-> GenericHandler(NumRunHandlers + 1 - n)]
    /\ stop_on_error \in BOOLEAN
    /\ pc = "idle"
    /\ idx = 0
    /\ ctx = PipelineContext
    /\ calls = <<>>
    /\ result = None
    /\ NoRouter
    /\ update = [message |-> NoMessage]
    /\ bot = [summary_processor |-> FALSE, processor |-> FALSE, history |-> <<>>,
              asked |-> FALSE]
    /\ chat = <<>>
    /\ env = NoEnv
    /\ NoTriggers
    /\ contexts = <<>>
    /\ runs = [r \in RunIds |-> IdleRun]
    /\ stores = <<>>
    /\ callers = <<>>

\* run, line 189: run r starts
StartRun(r) ==
    /\ runs[r].pc = "idle"
    /\ LET new == NewContext(contexts)
       IN  /\ contexts' = new.heap
           /\ runs' = [runs EXCEPT ![r] = [@ EXCEPT !.pc = "loop", !.idx = 1,
                                                    !.ctx = new.ref]]
    /\ UNCHANGED <<pipeVars, routerVars, botVars, env, triggerVars, stores, callers>>

\* run, lines 194-197, in run r
CheckLoop(r) ==
    /\ runs[r].pc = "loop"
    /\ runs' = [runs EXCEPT ![r].pc =
                    IF runs[r].idx > Len(handlers) THEN "done"
                    ELSE IF LoopBreaks(ContextOf(r)) THEN "done"
                    ELSE "gate"]
    /\ UNCHANGED <<pipeVars, routerVars, botVars, env, triggerVars, contexts, stores,
                   callers>>

\* run, lines 199-209, in run r
CallGate(r) ==
    /\ runs[r].pc = "gate"
    /\ \E out \in GenericGateOutcomes(ContextOf(r)) :
        LET after == [ContextOf(r) EXCEPT !.data = out.data]
            step  == IF out.ret = "raise"
                     THEN AfterGateError(after)
                     ELSE [ctx |-> after, next |-> AfterGate(out.ret)]
        IN  /\ contexts' = [contexts EXCEPT ![runs[r].ctx] = step.ctx]
            /\ runs' = [runs EXCEPT ![r] = Moved(@, step.next)]
    /\ UNCHANGED <<pipeVars, routerVars, botVars, env, triggerVars, stores, callers>>

\* run, lines 211-220, in run r
CallProcess(r) ==
    /\ runs[r].pc = "process"
    /\ \E out \in GenericProcessOutcomes(ContextOf(r)) :
        LET after == [should_continue |-> ContextOf(r).should_continue /\ ~out.stop,
                      data |-> out.data]
            step  == IF out.raised THEN AfterProcessError(after) ELSE AfterProcess(after)
        IN  /\ contexts' = [contexts EXCEPT ![runs[r].ctx] = step.ctx]
            /\ runs' = [runs EXCEPT ![r] =
                            [Moved(@, step.next) EXCEPT
                                !.processed = TRUE,
                                !.stopped = @ \/ out.stop \/ (out.raised /\ stop_on_error)]]
    /\ UNCHANGED <<pipeVars, routerVars, botVars, env, triggerVars, stores, callers>>

\* run, lines 222-223, in run r
ReturnRun(r) ==
    /\ runs[r].pc = "done"
    /\ runs' = [runs EXCEPT ![r] = [@ EXCEPT !.pc = "returned", !.result = ContextOf(r)]]
    /\ UNCHANGED <<pipeVars, routerVars, botVars, env, triggerVars, contexts, stores,
                   callers>>

NextRuns ==
    \E r \in RunIds :
        \/ StartRun(r)
        \/ CheckLoop(r)
        \/ CallGate(r)
        \/ CallProcess(r)
        \/ ReturnRun(r)

SpecRuns == InitRuns /\ [][NextRuns]_vars

(***************************************************************************)
(* The shared per-chat histories: HistoryManager                           *)
(* (ai_summary_pipeline/history_manager.py) and ConversationManager        *)
(* (ai_handler_pipeline/conversation_manager.py), called from concurrent   *)
(* threads for one chat                                                    *)
(***************************************************************************)
CallerIds == 1..NumCallers

\* the two classes
Managers == {"HistoryManager", "ConversationManager"}

\* deque(maxlen=max_messages): the last max_messages elements
Window(s) == IF Len(s) > MaxMessages THEN SubSeq(s, Len(s) - MaxMessages + 1, Len(s)) ELSE s

\* HistoryManager.get_history, lines 90-91: the last limit messages, all of
\* them for a limit of 0 or None; ConversationManager.get_history has no limit
Limited(s, limit) ==
    IF limit # 0 /\ limit < Len(s) THEN SubSeq(s, Len(s) - limit + 1, Len(s)) ELSE s

\* the limits get_history is called with
Limits(manager) == IF manager = "HistoryManager" THEN {0, 1} ELSE {0}

\* the calls made so far
CallsMade == LET Sum[n \in 0..NumCallers] ==
                    IF n = 0 THEN 0 ELSE Sum[n - 1] + callers[n].calls
             IN  Sum[NumCallers]

\* a caller that is in no call
IdleCaller ==
    [pc |-> "idle", op |-> None, message |-> <<>>, limit |-> 0, i |-> 0,
     history |-> <<>>, since |-> 0, calls |-> 0, returned |-> FALSE,
     result |-> <<>>, until |-> 0]

\* mutant of CanAcquire: the lock is not taken
CanAcquireAlways(lock) == TRUE

\* `with self.lock:` enters when no thread holds the lock
CanAcquire(lock) == lock = 0

\* a manager whose chat holds the messages stored earlier, and callers that
\* are in no call
InitStores ==
    /\ NoPipeline
    /\ NoRouter
    /\ update = [message |-> NoMessage]
    /\ bot = [summary_processor |-> FALSE, processor |-> FALSE, history |-> <<>>,
              asked |-> FALSE]
    /\ chat = <<>>
    /\ env = NoEnv
    /\ NoTriggers
    /\ contexts = <<>>
    /\ runs = <<>>
    /\ \E manager \in Managers, n \in {0, MaxMessages} :
        LET earlier == [k \in 1..n |-> <<0, k>>]
        IN  stores = [manager |-> manager, lock |-> 0, deque |-> earlier,
                      appended |-> earlier]
    /\ callers = [c \in CallerIds |-> IdleCaller]

\* add_message(chat_id, ...) is called: the message dict is built (before the
\* with statement)
CallAddMessage(c) ==
    /\ callers[c].pc = "idle"
    /\ CallsMade < MaxCalls
    /\ callers' = [callers EXCEPT ![c] =
            [@ EXCEPT !.pc = "acquire", !.op = "add_message",
                      !.message = <<c, callers[c].calls + 1>>, !.calls = @ + 1,
                      !.returned = FALSE]]
    /\ UNCHANGED <<pipeVars, routerVars, botVars, env, triggerVars, contexts, runs, stores>>

\* get_history(chat_id, limit) is called
CallGetHistory(c, limit) ==
    /\ callers[c].pc = "idle"
    /\ CallsMade < MaxCalls
    /\ callers' = [callers EXCEPT ![c] =
            [@ EXCEPT !.pc = "acquire", !.op = "get_history", !.limit = limit,
                      !.calls = @ + 1, !.since = Len(stores.appended),
                      !.returned = FALSE]]
    /\ UNCHANGED <<pipeVars, routerVars, botVars, env, triggerVars, contexts, runs, stores>>

\* `with self.lock:` is entered
Acquire(c) ==
    /\ callers[c].pc = "acquire"
    /\ CanAcquire(stores.lock)
    /\ stores' = [stores EXCEPT !.lock = c]
    /\ callers' = [callers EXCEPT ![c] =
            [@ EXCEPT !.pc = IF callers[c].op = "add_message" THEN "append" ELSE "copy",
                      !.i = 1, !.history = <<>>]]
    /\ UNCHANGED <<pipeVars, routerVars, botVars, env, triggerVars, contexts, runs>>

\* add_message: self.histories[chat_id].append(message)
AppendMessage(c) ==
    /\ callers[c].pc = "append"
    /\ stores' = [stores EXCEPT !.deque = Window(Append(@, callers[c].message)),
                                !.appended = Append(@, callers[c].message)]
    /\ callers' = [callers EXCEPT ![c].pc = "release"]
    /\ UNCHANGED <<pipeVars, routerVars, botVars, env, triggerVars, contexts, runs>>

\* get_history: list(self.histories[chat_id]) copies the deque, one element
\* after the other
CopyElement(c) ==
    /\ callers[c].pc = "copy"
    /\ callers' = [callers EXCEPT ![c] =
            IF @.i <= Len(stores.deque)
            THEN [@ EXCEPT !.history = Append(@, stores.deque[callers[c].i]), !.i = @ + 1]
            ELSE [@ EXCEPT !.history = Limited(@, callers[c].limit), !.pc = "release"]]
    /\ UNCHANGED <<pipeVars, routerVars, botVars, env, triggerVars, contexts, runs, stores>>

\* the with statement is left and the call returns
Release(c) ==
    /\ callers[c].pc = "release"
    /\ stores' = [stores EXCEPT !.lock = IF @ = c THEN 0 ELSE @]
    /\ callers' = [callers EXCEPT ![c] =
            [@ EXCEPT !.pc = "idle", !.returned = TRUE, !.result = callers[c].history,
                      !.until = Len(stores.appended)]]
    /\ UNCHANGED <<pipeVars, routerVars, botVars, env, triggerVars, contexts, runs>>

NextStores ==
    \E c \in CallerIds :
        \/ CallAddMessage(c)
        \/ \E limit \in Limits(stores.manager) : CallGetHistory(c, limit)
        \/ Acquire(c)
        \/ AppendMessage(c)
        \/ CopyElement(c)
        \/ Release(c)

SpecStores == InitStores /\ [][NextStores]_vars

(***************************************************************************)
(* HistoryManager and ConversationManager as dictionaries of deques, one   *)
(* call after the other (ai_summary_pipeline/history_manager.py,           *)
(* ai_handler_pipeline/conversation_manager.py)                            *)
(***************************************************************************)
\* defaultdict(lambda: deque(maxlen=max_messages)) after construction
NoHistories == [x \in {} |-> <<>>]

\* defaultdict.__getitem__: self.histories[chat_id] inserts an empty deque
\* for a key that is missing
Touch(h, chat_id) ==
    [x \in (DOMAIN h) \cup {chat_id} |-> IF x \in DOMAIN h THEN h[x] ELSE <<>>]

\* mutant of DequeAppend: a list without maxlen
DequeAppendUnbounded(d, m) == Append(d, m)

\* deque(maxlen=max_messages).append: a full deque drops its oldest entry
DequeAppend(d, m) == Window(Append(d, m))

\* add_message: self.histories[chat_id].append(message)
ManagerAddMessage(h, chat_id, m) ==
    [Touch(h, chat_id) EXCEPT ![chat_id] = DequeAppend(@, m)]

\* mutant of ManagerGetHistory: the dictionary is read with .get and keeps
\* its keys
ManagerGetHistoryPure(h, chat_id, limit) ==
    [histories |-> h,
     result |-> IF chat_id \in DOMAIN h THEN Limited(h[chat_id], limit) ELSE <<>>]

\* get_history: list(self.histories[chat_id]), cut to the last limit entries
ManagerGetHistory(h, chat_id, limit) ==
    [histories |-> Touch(h, chat_id), result |-> Limited(Touch(h, chat_id)[chat_id], limit)]

\* clear_chat: del self.histories[chat_id] when the key is there
ManagerClearChat(h, chat_id) == [x \in (DOMAIN h) \ {chat_id} |-> h[x]]

\* get_stats: total_chats and total_messages
ManagerGetStats(h) ==
    LET RECURSIVE Total(_)
        Total(S) == IF S = {} THEN 0
                    ELSE LET x == CHOOSE x \in S : TRUE IN Len(h[x]) + Total(S \ {x})
    IN  [total_chats |-> Cardinality(DOMAIN h), total_messages |-> Total(DOMAIN h)]

(***************************************************************************)
(* SummaryProcessingHandler.should_process over message texts              *)
(* (ai_summary_pipeline/handler.py), specification SpecSummary             *)
(***************************************************************************)
\* a text is a sequence of characters; the Cyrillic letters of the third
\* keyword are written cy-s, cy-a, cy-m, cy-r, cy-i (capitals CY-S, ...)
DEFAULT_TRIGGER_KEYWORDS ==
    << <<"/", "s", "u", "m", "m", "a", "r", "i", "z", "e">>,
       <<"/", "s", "u", "m", "m", "a", "r", "y">>,
       <<"/", "cy-s", "cy-a", "cy-m", "cy-a", "cy-r", "cy-i">> >>

\* str.lower of one character
LowerChar(ch) ==
    CASE ch = "S" -> "s" [] ch = "U" -> "u" [] ch = "M" -> "m" [] ch = "A" -> "a"
      [] ch = "R" -> "r" [] ch = "Y" -> "y" [] ch = "I" -> "i" [] ch = "Z" -> "z"
      [] ch = "E" -> "e" [] ch = "H" -> "h"
      [] ch = "CY-S" -> "cy-s" [] ch = "CY-A" -> "cy-a" [] ch = "CY-M" -> "cy-m"
      [] ch = "CY-R" -> "cy-r" [] ch = "CY-I" -> "cy-i"
      [] OTHER -> ch

\* mutant of TextLower: the text is compared as it is
TextAsIs(t) == t

\* str.lower
TextLower(t) == [k \in 1..Len(t) |-> LowerChar(t[k])]

\* `kw in t`: kw is a substring of t
Contains(t, kw) ==
    \E i \in 0..(Len(t) - Len(kw)) : SubSeq(t, i + 1, i + Len(kw)) = kw

\* should_process, lines 76-82: some keyword, lowered, is in the lowered text
IsTrigger(t) ==
    \E k \in 1..Len(DEFAULT_TRIGGER_KEYWORDS) :
        Contains(TextLower(t), TextLower(DEFAULT_TRIGGER_KEYWORDS[k]))

\* the texts looked at: no keyword, a keyword as written, in capitals, in
\* mixed case inside a sentence, the Cyrillic one in capitals, a keyword
\* without its slash, a keyword cut short
SampleTexts ==
    { <<"h", "i">>,
      <<"/", "s", "u", "m", "m", "a", "r", "y">>,
      <<"/", "S", "U", "M", "M", "A", "R", "Y">>,
      <<"h", "i", " ", "/", "S", "u", "m", "m", "a", "r", "I", "z", "e", "!">>,
      <<"/", "CY-S", "CY-A", "cy-m", "cy-a", "cy-r", "CY-I">>,
      <<"S", "u", "m", "m", "a", "r", "y">>,
      <<"/", "s", "u", "m", "m", "a", "r">> }

\* update.message for the summary gate: text, caption or neither; the sender
\* known or not; forwarded or not
SummaryMessages ==
    {[present |-> FALSE, content |-> "none", chars |-> <<>>, from_user |-> FALSE,
      forwarded |-> FALSE]}
    \cup {m \in {[present |-> TRUE, content |-> co, chars |-> t, from_user |-> fu,
                   forwarded |-> fw] :
                    co \in {"text", "caption"}, t \in SampleTexts, fu \in BOOLEAN,
                    fw \in BOOLEAN} :
            m.from_user \/ ~m.forwarded \/ m.content = "text"}
    \cup {[present |-> TRUE, content |-> "none", chars |-> <<>>, from_user |-> TRUE,
           forwarded |-> FALSE]}

\* the chat all messages of this specification come from
SummaryChat == 1

\* the entry add_message stores for message m
StoredText(m) == [text |-> m.chars, is_forwarded |-> m.forwarded]

\* should_process(ctx): what it returns ("raise": an exception leaves it) and
\* the histories it leaves
SummaryShouldProcess(h, processor, m) ==
    IF ~m.present THEN [ret |-> "false", histories |-> h]
    ELSE IF ~processor THEN [ret |-> "false", histories |-> h]
    ELSE IF m.chars = <<>> THEN [ret |-> "false", histories |-> h]
    ELSE IF IsTrigger(m.chars) THEN [ret |-> "true", histories |-> h]
    ELSE IF ~m.forwarded /\ ~m.from_user THEN [ret |-> "raise", histories |-> h]
    ELSE [ret |-> "false",
          histories |-> ManagerAddMessage(h, SummaryChat, StoredText(m))]

\* no gate call has been made
NoGateCall == [called |-> FALSE, message |-> CHOOSE m \in SummaryMessages : ~m.present,
               ret |-> "false", before |-> NoHistories]

\* a handler whose processor was initialised or not, and an empty manager
InitSummary ==
    /\ NoPipeline
    /\ NoRouter
    /\ update = [message |-> NoMessage]
    /\ \E p \in BOOLEAN :
        bot = [summary_processor |-> p, processor |-> FALSE, history |-> <<>>,
               asked |-> FALSE]
    /\ chat = <<>>
    /\ env = NoEnv
    /\ NoTriggers
    /\ contexts = <<>>
    /\ runs = <<>>
    /\ stores = [manager |-> "HistoryManager", histories |-> NoHistories]
    /\ callers = NoGateCall

\* the pipeline calls should_process for message m
SummaryGateCall(m) ==
    /\ LET out == SummaryShouldProcess(stores.histories, bot.summary_processor, m)
       IN  /\ stores' = [stores EXCEPT !.histories = out.histories]
           /\ callers' = [called |-> TRUE, message |-> m, ret |-> out.ret,
                          before |-> stores.histories]
    /\ UNCHANGED <<pipeVars, routerVars, botVars, env, triggerVars, contexts, runs>>

NextSummary == \E m \in SummaryMessages : SummaryGateCall(m)

SpecSummary == InitSummary /\ [][NextSummary]_vars

(***************************************************************************)
(* The managers called one call after the other, specification             *)
(* SpecManagers                                                            *)
(***************************************************************************)
ChatIds == 1..NumChats

\* the roles add_message of the ConversationManager is called with; the
\* HistoryManager's add_message takes no role
Roles(manager) ==
    IF manager = "ConversationManager" THEN {"user", "model", "system"} ELSE {None}

\* ConversationManager.add_message, lines 42-43: ValueError for a role that
\* is neither "user" nor "model"
ValidRole(manager, role) == manager = "HistoryManager" \/ role \in {"user", "model"}

\* no call has been made
NoManagerCall ==
    [op |-> None, chat_id |-> 0, limit |-> 0, raised |-> FALSE, result |-> <<>>,
     before |-> NoHistories]

\* a manager after construction
InitManagers ==
    /\ NoPipeline
    /\ NoRouter
    /\ update = [message |-> NoMessage]
    /\ bot = [summary_processor |-> FALSE, processor |-> FALSE, history |-> <<>>,
              asked |-> FALSE]
    /\ chat = <<>>
    /\ env = NoEnv
    /\ NoTriggers
    /\ contexts = <<>>
    /\ runs = <<>>
    /\ \E manager \in Managers :
        stores = [manager |-> manager, histories |-> NoHistories,
                  appended |-> [c \in ChatIds |-> <<>>], appends |-> 0]
    /\ callers = NoManagerCall

\* add_message(chat_id, ...): the n-th message passed to add_message
AddMessageCall(chat_id, role) ==
    /\ stores.appends < MaxAppends
    /\ LET m == [n |-> stores.appends + 1, role |-> role]
           ok == ValidRole(stores.manager, role)
       IN  /\ stores' = IF ok
                        THEN [stores EXCEPT
                                !.histories = ManagerAddMessage(@, chat_id, m),
                                !.appended[chat_id] = Append(@, m),
                                !.appends = @ + 1]
                        ELSE stores
           /\ callers' = [op |-> "add_message", chat_id |-> chat_id, limit |-> 0,
                          raised |-> ~ok, result |-> <<m>>,
                          before |-> stores.histories]
    /\ UNCHANGED <<pipeVars, routerVars, botVars, env, triggerVars, contexts, runs>>

\* get_history(chat_id, limit)
GetHistoryCall(chat_id, limit) ==
    /\ LET out == ManagerGetHistory(stores.histories, chat_id, limit)
       IN  /\ stores' = [stores EXCEPT !.histories = out.histories]
           /\ callers' = [op |-> "get_history", chat_id |-> chat_id, limit |-> limit,
                          raised |-> FALSE, result |-> out.result,
                          before |-> stores.histories]
    /\ UNCHANGED <<pipeVars, routerVars, botVars, env, triggerVars, contexts, runs>>

\* clear_chat(chat_id)
ClearChatCall(chat_id) ==
    /\ stores' = [stores EXCEPT !.histories = ManagerClearChat(@, chat_id),
                                !.appended[chat_id] = <<>>]
    /\ callers' = [op |-> "clear_chat", chat_id |-> chat_id, limit |-> 0,
                   raised |-> FALSE, result |-> <<>>, before |-> stores.histories]
    /\ UNCHANGED <<pipeVars, routerVars, botVars, env, triggerVars, contexts, runs>>

NextManagers ==
    \E chat_id \in ChatIds :
        \/ \E role \in Roles(stores.manager) : AddMessageCall(chat_id, role)
        \/ \E limit \in Limits(stores.manager) : GetHistoryCall(chat_id, limit)
        \/ ClearChatCall(chat_id)

SpecManagers == InitManagers /\ [][NextManagers]_vars

(***************************************************************************)
(* GeminiProcessor.process_message called by concurrent runs of the AI     *)
(* handler for one chat (ai_handler_pipeline/processor.py), specification  *)
(* SpecProcessor.  The callers are coroutines of one event loop: a         *)
(* coroutine runs until it awaits.                                         *)
(***************************************************************************)
\* max_messages of the AI handler's ConversationManager
ConversationWindow == 2 * NumPairs

\* the chat the calls are for
ConversationChat == 1

\* the last n elements of s
Newest(s, n) == IF Len(s) > n THEN SubSeq(s, Len(s) - n + 1, Len(s)) ELSE s

\* ConversationManager.add_message(chat_id, role, content) of the handler's
\* manager
ConversationAdd(h, chat_id, m) ==
    [Touch(h, chat_id) EXCEPT ![chat_id] = Newest(Append(@, m), ConversationWindow)]

\* chat.send_message and response.text: a text, no text (None), or an
\* exception
SendOutcomes == {"text", "none", "raise"}

\* mutant of Suspends: the callers are threads, switched at any point
SuspendsAnywhere(at) == TRUE

\* whether the coroutine is suspended in an await when it is at this point:
\* handler.process awaits send_chat_action before and reply_text after
\* process_message, whose body has no await
Suspends(at) == at \in {"idle", "send_chat_action", "reply"}

\* a coroutine that is in no call
IdleTask == [pc |-> "idle", n |-> 0, out |-> None, history |-> <<>>]

InitProcessor ==
    /\ NoPipeline
    /\ NoRouter
    /\ update = [message |-> NoMessage]
    /\ bot = [summary_processor |-> FALSE, processor |-> TRUE, history |-> <<>>,
              asked |-> FALSE]
    /\ chat = <<>>
    /\ env = NoEnv
    /\ NoTriggers
    /\ contexts = <<>>
    /\ runs = <<>>
    /\ stores = [manager |-> "ConversationManager", histories |-> NoHistories,
                 running |-> 0, calls |-> 0, failed |-> {}]
    /\ callers = [c \in CallerIds |-> IdleTask]

\* the event loop lets coroutine c take its next step: no other coroutine is
\* between two awaits
MayStep(c) == stores.running \in {0, c}

\* who runs after c has moved on
CallerRunning(c, at) == IF Suspends(at) THEN 0 ELSE c

\* AIProcessingHandler.process is called for a message with a payload, up to
\* its first await
StartProcess(c) ==
    /\ callers[c].pc = "idle"
    /\ MayStep(c)
    /\ stores.calls < MaxCalls
    /\ stores' = [stores EXCEPT !.calls = @ + 1, !.running = CallerRunning(c, "send_chat_action")]
    /\ callers' = [callers EXCEPT ![c] =
            [pc |-> "send_chat_action", n |-> stores.calls + 1, out |-> None,
             history |-> <<>>]]
    /\ UNCHANGED <<pipeVars, routerVars, botVars, env, triggerVars, contexts, runs>>

\* send_chat_action returned and process_message was entered: get_history
ProcessorGetHistory(c) ==
    /\ callers[c].pc = "send_chat_action"
    /\ MayStep(c)
    /\ LET out == ManagerGetHistory(stores.histories, ConversationChat, 0)
       IN  /\ stores' = [stores EXCEPT !.histories = out.histories,
                                       !.running = CallerRunning(c, "send_message")]
           /\ callers' = [callers EXCEPT ![c] =
                    [@ EXCEPT !.pc = "send_message", !.history = out.result]]
    /\ UNCHANGED <<pipeVars, routerVars, botVars, env, triggerVars, contexts, runs>>

\* process_message, lines 82-91: chats.create and send_message; an exception
\* goes to the except clause, which raises it again
ProcessorSendMessage(c, out) ==
    /\ callers[c].pc = "send_message"
    /\ MayStep(c)
    /\ LET pc1 == IF out = "raise" THEN "reply" ELSE "add_user"
       IN  /\ stores' = [stores EXCEPT
                    !.running = CallerRunning(c, pc1),
                    !.failed = IF out = "raise" THEN @ \cup {callers[c].n} ELSE @]
           /\ callers' = [callers EXCEPT ![c] = [@ EXCEPT !.pc = pc1, !.out = out]]
    /\ UNCHANGED <<pipeVars, routerVars, botVars, env, triggerVars, contexts, runs>>

\* process_message, line 95: add_message(chat_id, "user", user_message)
ProcessorAddUser(c) ==
    /\ callers[c].pc = "add_user"
    /\ MayStep(c)
    /\ stores' = [stores EXCEPT
            !.histories = ConversationAdd(@, ConversationChat,
                                          [role |-> "user", n |-> callers[c].n]),
            !.running = CallerRunning(c, "add_model")]
    /\ callers' = [callers EXCEPT ![c].pc = "add_model"]
    /\ UNCHANGED <<pipeVars, routerVars, botVars, env, triggerVars, contexts, runs>>

\* process_message, lines 96-100: add_message(chat_id, "model",
\* response_text), then len(response_text) in the log line, which raises for
\* None, and the return
ProcessorAddModel(c) ==
    /\ callers[c].pc = "add_model"
    /\ MayStep(c)
    /\ stores' = [stores EXCEPT
            !.histories = ConversationAdd(@, ConversationChat,
                                          [role |-> "model", n |-> callers[c].n]),
            !.running = CallerRunning(c, "reply")]
    /\ callers' = [callers EXCEPT ![c].pc = "reply"]
    /\ UNCHANGED <<pipeVars, routerVars, botVars, env, triggerVars, contexts, runs>>

\* handler.process: the reply with the answer, or with the error text when
\* process_message raised, and the return
ProcessorReply(c) ==
    /\ callers[c].pc = "reply"
    /\ MayStep(c)
    /\ stores' = [stores EXCEPT !.running = CallerRunning(c, "idle")]
    /\ callers' = [callers EXCEPT ![c].pc = "idle"]
    /\ UNCHANGED <<pipeVars, routerVars, botVars, env, triggerVars, contexts, runs>>

NextProcessor ==
    \E c \in CallerIds :
        \/ StartProcess(c)
        \/ ProcessorGetHistory(c)
        \/ \E out \in SendOutcomes : ProcessorSendMessage(c, out)
        \/ ProcessorAddUser(c)
        \/ ProcessorAddModel(c)
        \/ ProcessorReply(c)

SpecProcessor == InitProcessor /\ [][NextProcessor]_vars

(***************************************************************************)
(* Properties of MessagePipeline.run (specification Spec)                  *)
(***************************************************************************)
Last(s) == s[Len(s)]

IsGate(e) == e.op = "gate"
IsProcess(e) == e.op = "process"

\* the gate calls of the run, in call order
GateCalls == SelectSeq(calls, IsGate)

Running == pc \in {"loop", "gate", "process", "done", "returned", "raised"}

\* this step made a handler call
Called == calls' # calls

\* priorities strictly descending along a sequence of handlers or calls
DescendingHandlers(hs) ==
    \A i, j \in 1..Len(hs) : i < j => hs[i].priority > hs[j].priority

DescendingCalls(cs) ==
    \A i, j \in 1..Len(cs) : i < j => cs[i].h.priority > cs[j].h.priority

\* no call follows a process call in which the handler called ctx.stop()
NothingAfterStop ==
    \A k \in 1..Len(calls) : (IsProcess(calls[k]) /\ calls[k].stop) => k = Len(calls)

\* C1: within one run, once ctx.should_continue is false it stays false and
\* run makes no further handler call (neither should_process nor process).
C1_StopIsFinal ==
    [][(Running /\ ~ctx.should_continue) => (~ctx'.should_continue /\ ~Called)]_vars

\* C1 witness: run returned a stopped context and left a registered handler
\* uncalled.
C1_Witness ==
    /\ pc = "returned"
    /\ ~result.should_continue
    /\ Len(calls) > 0 /\ Last(calls).stop
    /\ Len(GateCalls) < Len(handlers)

\* C2 as claimed: whatever the order of the add_handler calls, the gates are
\* invoked in descending priority and nothing is called after a process that
\* called ctx.stop().
C2_PriorityOrderAnyAddOrder ==
    DescendingCalls(GateCalls) /\ NothingAfterStop

\* C2 amended: the gates are invoked in the order of the add_handler calls
\* (the k-th gate call is on the k-th handler added), hence in descending
\* priority when the handlers were added in descending priority; and nothing
\* is called after a process that called ctx.stop().
C2_AddOrder ==
    /\ \A k \in 1..Len(GateCalls) : GateCalls[k].h = handlers[k]
    /\ DescendingHandlers(handlers) => DescendingCalls(GateCalls)
    /\ NothingAfterStop

\* C2 witness: three handlers added in descending priority; the second one's
\* process called stop and returned; the third was never called.
C2_Witness ==
    /\ pc = "returned"
    /\ Len(handlers) = 3 /\ DescendingHandlers(handlers)
    /\ Len(GateCalls) = 2
    /\ Last(calls) = [op |-> "process", h |-> handlers[2], out |-> "return", stop |-> TRUE]

\* C3 as claimed: when a gate raised under stop_on_error=true, that call is
\* the last one of the run and the returned context has should_continue =
\* false.
C3_GateErrorStopsContext ==
    (pc = "returned" /\ stop_on_error
        /\ \E k \in 1..Len(calls) : IsGate(calls[k]) /\ calls[k].out = "raise")
    => (/\ IsGate(Last(calls)) /\ Last(calls).out = "raise"
        /\ ~result.should_continue)

\* C4: when a gate raises under stop_on_error=false, run leaves the context
\* as it was, does not call that handler's process and goes on to the next
\* handler, exactly as after a gate that returned False.
C4_GateErrorSkips ==
    [][(pc = "gate" /\ ~stop_on_error /\ Called /\ Last(calls').out = "raise")
        => (ctx' = ctx /\ pc' = "loop" /\ idx' = idx + 1)]_vars

\* C4 witness: after some handler wrote to ctx.data, a gate raised under
\* stop_on_error=false and the next handler's gate was invoked.
C4_Witness ==
    /\ ~stop_on_error
    /\ \E k \in 2..(Len(calls) - 1) :
        /\ IsProcess(calls[k - 1])
        /\ IsGate(calls[k]) /\ calls[k].out = "raise"
        /\ IsGate(calls[k + 1])
    /\ "handled" \in DOMAIN ctx.data
    /\ ctx.should_continue

\* C5: when process raises, under stop_on_error=true the context is stopped
\* and the loop is left; under stop_on_error=false the loop goes to the next
\* handler with should_continue false exactly if the failing handler had
\* called ctx.stop(), and the next handler's gate is invoked exactly if
\* should_continue is true.  After the loop is left no handler is called.
C5_ProcessError ==
    /\ [][(pc = "process" /\ Called /\ Last(calls').out = "raise")
            => IF stop_on_error
               THEN ~ctx'.should_continue /\ pc' = "done"
               ELSE /\ pc' = "loop" /\ idx' = idx + 1
                    /\ ctx'.should_continue = ~Last(calls').stop]_vars
    /\ [][(pc = "loop" /\ idx <= Len(handlers))
            => ((pc' = "gate") <=> ctx.should_continue)]_vars
    /\ [][(pc \in {"done", "returned"}) => (~Called)]_vars

\* C5 witness: under stop_on_error=false a process raised without having
\* stopped the context, and the next handler's gate was invoked.
C5_Witness ==
    /\ ~stop_on_error
    /\ \E k \in 1..(Len(calls) - 1) :
        /\ IsProcess(calls[k]) /\ calls[k].out = "raise" /\ ~calls[k].stop
        /\ IsGate(calls[k + 1])

\* C6: no handler exception leaves run: run is never left by an exception,
\* it can always take its next step until it has returned, and what it
\* returns is its context.
C6_NeverPropagates ==
    /\ pc # "raised"
    /\ pc \in {"loop", "gate", "process", "done"} => ENABLED Next
    /\ pc = "returned" => result = ctx /\ result.should_continue \in BOOLEAN

\* C6 witness: run returned after both a gate and a process had raised.
C6_Witness ==
    /\ pc = "returned"
    /\ result = ctx
    /\ \E k \in 1..Len(calls) : IsGate(calls[k]) /\ calls[k].out = "raise"
    /\ \E k \in 1..Len(calls) : IsProcess(calls[k]) /\ calls[k].out = "raise"

\* C7 as claimed: a run that returns should_continue = true has invoked the
\* gate of every registered handler (Stopped or Exhausted).
C7_StoppedOrExhausted ==
    pc = "returned" =>
        (~result.should_continue \/ Len(GateCalls) = Len(handlers))

\* progress measure of run: strictly increasing with every step of run
Measure ==
    CASE pc = "loop"     -> 3 * idx
      [] pc = "gate"     -> 3 * idx + 1
      [] pc = "process"  -> 3 * idx + 2
      [] pc = "done"     -> 3 * Len(handlers) + 6
      [] pc = "returned" -> 3 * Len(handlers) + 7
      [] OTHER           -> 0

\* C8: per run, each handler's gate and process are called at most once;
\* process is called only right after that handler's gate returned True; a
\* gate returning False changes nothing in the context, is no error and leads
\* to the next handler; run considers at most len(handlers) handlers and
\* every step of it makes progress towards its return.
C8_AtMostOnce ==
    /\ [](\A i, j \in 1..Len(calls) :
            (calls[i].op = calls[j].op /\ calls[i].h = calls[j].h) => i = j)
    /\ [](\A k \in 1..Len(calls) : IsProcess(calls[k]) =>
            /\ k > 1
            /\ calls[k - 1] = [op |-> "gate", h |-> calls[k].h,
                               out |-> "true", stop |-> FALSE])
    /\ [][(pc = "gate" /\ Called /\ Last(calls').out = "false")
            => (ctx' = ctx /\ pc' = "loop" /\ idx' = idx + 1)]_vars
    /\ [](Len(GateCalls) <= Len(handlers) /\ Measure <= 3 * Len(handlers) + 7)
    /\ [][Running => (Measure' > Measure)]_vars

\* C8 witness: a returned run over three handlers in which one gate returned
\* False and another returned True and was processed.
C8_Witness ==
    /\ pc = "returned"
    /\ Len(handlers) = 3 /\ Len(GateCalls) = 3
    /\ \E k \in 1..Len(calls) : IsGate(calls[k]) /\ calls[k].out = "false"
    /\ \E k \in 1..Len(calls) : IsProcess(calls[k])

(***************************************************************************)
(* Properties of ServiceRouter (specification SpecRouter)                  *)
(***************************************************************************)
\* the services whose providers the observed get_video_url call invoked
InvokedServices ==
    {route.result.log[k].provider[1] : k \in 1..Len(route.result.log)}

Matches(s) == ExtractUrl(s, route.text).found

\* C10 as claimed: when the patterns of two services of the router both match
\* the text, no provider of the lower-priority one is invoked (whether or
\* not the providers of the higher-priority one fail).
C10_HigherPriorityOnly ==
    route.called =>
        \A i, j \in 1..Len(services) :
            (Matches(services[i]) /\ Matches(services[j])
                /\ services[i].priority > services[j].priority)
            => services[j].name \notin InvokedServices

\* the positions of the services whose pattern matches the routed text
Matching == {i \in 1..Len(services) : Matches(services[i])}

\* the first service of the list whose pattern matches the routed text
FirstMatch == services[CHOOSE i \in Matching : \A j \in Matching : i <= j]

\* some provider call of the observed get_video_url call returned a URL
ChainSucceeded ==
    \E k \in 1..Len(route.result.log) : route.result.log[k].out = "url"

\* C11: get_video_url returns exactly one of three outcomes: None exactly
\* when no service's pattern matches the text, "providers_failed" exactly when
\* a pattern matched and the provider chain of the first matching service
\* failed, a 4-tuple exactly when the first matching service resolved.
C11_ThreeOutcomes ==
    route.called =>
        /\ route.result.kind \in {"none", "providers_failed", "resolved"}
        /\ (route.result.kind = "none") <=> (Matching = {})
        /\ (route.result.kind = "providers_failed") <=>
                (Matching # {} /\ ~ChainSucceeded)
        /\ (route.result.kind = "resolved") <=> (Matching # {} /\ ChainSucceeded)
        /\ Matching # {} => InvokedServices \subseteq {FirstMatch.name}
        /\ route.result.kind = "resolved" =>
                /\ route.result.service_name = FirstMatch.name
                /\ route.result.video_url.for_url = FirstMatch.name
        /\ route.result.kind # "resolved" => route.result.video_url = NoUrl

\* C11 witness: the first service of the list does not match, the second one
\* matches and all its providers, two at least, failed.
C11_Witness ==
    /\ route.called
    /\ Len(services) = 2 /\ Matching = {2}
    /\ route.result.kind = "providers_failed"
    /\ Len(route.result.log) >= 2

\* C12 as claimed: whatever add_service and remove_service calls came before,
\* get_video_url consults the services in descending-priority order.
C12_ConsultsByPriority ==
    route.called =>
        \A i, j \in 1..Len(route.consulted) :
            i < j => route.consulted[i].priority >= route.consulted[j].priority

\* C15: in a resolved outcome provider_num is the 1-based position, in the
\* matched service's provider list, of the provider whose output is returned,
\* and provider_name and service_name name that provider and that service.
C15_RankAndNames ==
    (route.called /\ route.result.kind = "resolved") =>
        LET r  == route.result
            ps == FirstMatch.providers
        IN  /\ r.provider_num \in 1..Len(ps)
            /\ ps[r.provider_num].name = r.provider_name
            /\ r.video_url.video_from = r.provider_name
            /\ Last(r.log) = [provider |-> r.provider_name, out |-> "url"]
            /\ Len(r.log) = r.provider_num
            /\ r.service_name = FirstMatch.name

\* C15 witness: the second service of the list matched and its second
\* provider resolved the URL after its first had failed.
C15_Witness ==
    /\ route.called /\ route.result.kind = "resolved"
    /\ Len(services) = 2 /\ Matching = {2}
    /\ route.result.service_name = services[2].name
    /\ route.result.provider_num = 2
    /\ route.result.provider_name = services[2].providers[2].name

\* C17 as claimed: whatever add_service and remove_service calls came before,
\* no service of the router is without providers, and routing a text that
\* only services without providers recognise yields no match.
C17_NoServiceWithoutProviders ==
    /\ \A i \in 1..Len(services) : Len(services[i].providers) > 0
    /\ (route.called /\ \A i \in Matching : Len(services[i].providers) = 0)
            => route.result.kind = "none"

(***************************************************************************)
(* Properties of BaseService.get_video_url (specification SpecService)     *)
(***************************************************************************)
\* the provider calls of the observed service call, in call order
Attempts == route.result.log

\* the priority load_providers_from_env gave provider class k
LoadedPriority(k) ==
    IF env.override[k].set THEN Clamp(env.override[k].value)
    ELSE Provider(1, k).priority

\* the position of provider class k in the scan of discover_providers
ScanPosition(k) == CHOOSE n \in 1..Len(env.order) : env.order[n] = k

\* C13: within one Service.get_video_url call the providers are attempted in
\* descending-priority order, equal priorities in discovery order, each
\* provider at most once and none retried.
C13_ProviderOrder ==
    route.called =>
        /\ \A i, j \in 1..Len(Attempts) : i < j =>
            LET a == Attempts[i].provider[2]
                b == Attempts[j].provider[2]
            IN  /\ a # b
                /\ LoadedPriority(a) >= LoadedPriority(b)
                /\ LoadedPriority(a) = LoadedPriority(b)
                        => ScanPosition(a) < ScanPosition(b)
        /\ Len(Attempts) <= Len(services[1].providers)
        /\ \A i \in 1..Len(Attempts) :
            Attempts[i].provider = services[1].providers[i].name

\* C13 witness: three providers were attempted, the first of them of higher
\* priority than the second although the scan found it later, the last two
\* of equal priority.
C13_Witness ==
    /\ route.called
    /\ Len(Attempts) = 3
    /\ LoadedPriority(Attempts[1].provider[2]) > LoadedPriority(Attempts[2].provider[2])
    /\ ScanPosition(Attempts[1].provider[2]) > ScanPosition(Attempts[2].provider[2])
    /\ LoadedPriority(Attempts[2].provider[2]) = LoadedPriority(Attempts[3].provider[2])

\* how often provider p was called in the observed service call
TimesAttempted(p) ==
    Cardinality({k \in 1..Len(Attempts) : Attempts[k].provider = p.name})

\* C14: Service.get_video_url returns the output of the first provider, in
\* the service's provider order, that returns a non-empty URL: every provider
\* before it was invoked exactly once, none after it was invoked, and the
\* returned URL and rank are that provider's; without such a provider every
\* provider was invoked once and the call fails.  With three providers of
\* which only the third succeeds, the rank is 3.
C14_FirstSuccess ==
    route.called =>
        LET ps == services[1].providers
            r  == route.result
            Succeeded(k) == k <= Len(Attempts) /\ Attempts[k].out = "url"
        IN  /\ r.ok <=> \E k \in 1..Len(ps) : Succeeded(k)
            /\ r.ok =>
                /\ r.provider_num \in 1..Len(ps)
                /\ Succeeded(r.provider_num)
                /\ \A k \in 1..(r.provider_num - 1) :
                    ~Succeeded(k) /\ TimesAttempted(ps[k]) = 1
                /\ TimesAttempted(ps[r.provider_num]) = 1
                /\ \A k \in (r.provider_num + 1)..Len(ps) : TimesAttempted(ps[k]) = 0
                /\ r.video_url = [video_from |-> ps[r.provider_num].name,
                                  for_url |-> services[1].name]
            /\ ~r.ok => \A k \in 1..Len(ps) : TimesAttempted(ps[k]) = 1
            /\ (Len(ps) = 3 /\ Len(Attempts) = 3 /\ Succeeded(3)) =>
                (r.ok /\ r.provider_num = 3
                    /\ TimesAttempted(ps[1]) = 1 /\ TimesAttempted(ps[2]) = 1)

\* C14 witness: a service with three providers of which the first returned
\* None, the second raised and the third returned a URL.
C14_Witness ==
    /\ route.called
    /\ Len(services[1].providers) = 3
    /\ Len(Attempts) = 3
    /\ Attempts[1].out = "none" /\ Attempts[2].out = "raise" /\ Attempts[3].out = "url"
    /\ route.result.ok /\ route.result.provider_num = 3

\* C16: in Service.get_video_url a provider that raises is treated as one
\* that returns None or "": the next provider is attempted; when every
\* provider failed in one of these ways the call returns failure, and no
\* provider exception leaves the call.
C16_RaiseIsFailure ==
    route.called =>
        LET ps == services[1].providers
            Failed(k) == Attempts[k].out \in {"none", "empty", "raise"}
        IN  /\ ~route.result.raised
            /\ \A k \in 1..Len(Attempts) : Failed(k) =>
                IF k < Len(ps)
                THEN Len(Attempts) > k /\ Attempts[k + 1].provider = ps[k + 1].name
                ELSE route.result = ServiceFail(Attempts)
            /\ (\A k \in 1..Len(Attempts) : Failed(k)) =>
                (Len(Attempts) = Len(ps) /\ route.result = ServiceFail(Attempts))

\* C16 witness: three providers failed, one by raising, one by returning ""
\* and one by returning None, and the call returned failure.
C16_Witness ==
    /\ route.called
    /\ Len(Attempts) = 3
    /\ Attempts[1].out = "raise" /\ Attempts[2].out = "empty" /\ Attempts[3].out = "none"
    /\ ~route.result.ok /\ ~route.result.raised

(***************************************************************************)
(* Properties of TriggerRegistry.check_triggers, checked under SpecTriggers*)
(***************************************************************************)
TriggerLog == check.result.log

\* the position of trigger t in the registry's list
TriggerPosition(t) == CHOOSE n \in 1..Len(triggers) : triggers[n].name = t

\* the should_trigger calls of the observed check, in the order made
PredicateCalls ==
    LET IsPredicate(e) == e.op = "should_trigger" IN SelectSeq(TriggerLog, IsPredicate)

\* every extract call directly follows a should_trigger call of the same
\* trigger that returned True
ExtractFollowsMatch ==
    \A n \in 1..Len(TriggerLog) :
        TriggerLog[n].op = "extract" =>
            /\ n > 1
            /\ TriggerLog[n - 1] = [trigger |-> TriggerLog[n].trigger,
                                   op |-> "should_trigger", out |-> "true"]

\* the predicates are called down the list, which is in descending priority
PredicatesDescend ==
    /\ \A n \in 1..Len(PredicateCalls) : PredicateCalls[n].trigger = triggers[n].name
    /\ \A n \in 1..(Len(triggers) - 1) : triggers[n].priority >= triggers[n + 1].priority

\* C18: triggers are evaluated in descending priority and the first trigger
\* whose should_trigger returns True is the returned one, its extractor
\* supplies the payload, and no trigger below it has its predicate or
\* extractor invoked.
C18_FirstMatchWins ==
    check.called =>
        /\ PredicatesDescend
        /\ ExtractFollowsMatch
        /\ \A n \in 1..Len(TriggerLog) :
            (/\ TriggerLog[n].op = "should_trigger"
             /\ TriggerLog[n].out = "true"
             /\ \A m \in 1..(n - 1) : TriggerLog[m].out # "true")
            => /\ check.result.matched
               /\ check.result.trigger = TriggerLog[n].trigger
               /\ Len(TriggerLog) = n + 1
               /\ TriggerLog[n + 1].op = "extract"

\* what check_triggers does: the first trigger whose should_trigger returns
\* True and whose extractor returns is the returned one: its extractor
\* supplies the payload ("" when it returns None) and no trigger below it has
\* its predicate or extractor invoked; a matching trigger whose extractor
\* raises is passed over.
FirstReturningMatchWins ==
    check.called =>
        /\ PredicatesDescend
        /\ ExtractFollowsMatch
        /\ \A n \in 1..Len(TriggerLog) :
            (TriggerLog[n].op = "extract" /\ TriggerLog[n].out # "raise")
            <=> (/\ n = Len(TriggerLog)
                 /\ check.result.matched
                 /\ check.result.trigger = TriggerLog[n].trigger
                 /\ TriggerLog[n].op = "extract"
                 /\ check.result.payload =
                        (IF TriggerLog[n].out = "payload" THEN "payload" ELSE ""))
        /\ check.result.matched =>
            /\ TriggerLog # <<>>
            /\ Last(TriggerLog).op = "extract"
            /\ Last(TriggerLog).out # "raise"
            /\ Len(PredicateCalls) = TriggerPosition(check.result.trigger)
        /\ (~check.result.matched /\ check.has_text) =>
            Len(PredicateCalls) = Len(triggers)

(***************************************************************************)
(* Properties of the bot's pipeline (specification SpecBot)                *)
(***************************************************************************)
\* the handlers that have sent a reply to the chat
Repliers == {chat[k].by : k \in 1..Len(chat)}

\* C9: for every inbound message run through a pipeline of the video-download,
\* summary and AI handlers, under either stop_on_error, at most one handler
\* sends a reply to the chat.
C9_AtMostOneReplier == Cardinality(Repliers) <= 1

\* C9 witness: under stop_on_error=false a returned run over all three
\* handlers in which two handlers were processed, the earlier one without
\* replying, and exactly one reply was sent.
C9_Witness ==
    /\ pc = "returned"
    /\ ~stop_on_error
    /\ Len(handlers) = 3
    /\ Len(SelectSeq(calls, IsProcess)) = 2
    /\ Len(chat) = 1
    /\ chat[1].by = Last(calls).h.name

\* the calls run made to the AI handler
IsAI(e) == e.h.name = "AI_HANDLER"

\* the replies the AI handler sent
AIReplies ==
    LET ByAI(r) == r.by = "AI_HANDLER" IN SelectSeq(chat, ByAI)

\* the AI handler's gate gets as far as check_triggers: the message has text
\* and the processor is there
TriggersChecked == Message.present /\ Message.content = "text" /\ bot.processor

\* check_triggers returns a trigger with the payload ""
MatchedButEmpty == TriggersChecked /\ Message.trigger \in {"empty", "null"}

\* check_triggers returns None
NoTriggerMatched == TriggersChecked /\ Message.trigger = "none"

\* the no-match case: the gate returns False, process is not called, the AI
\* handler replies nothing and leaves no stop behind: the handler after it is
\* called next, and a run that called no other handler returns a context that
\* is not stopped
NoMatchPassesOn ==
    NoTriggerMatched =>
        /\ AIReplies = <<>>
        /\ ~bot.asked
        /\ \A n \in 1..Len(calls) :
            IsAI(calls[n]) =>
                /\ calls[n].op = "gate"
                /\ calls[n].out = "false"
                /\ (pc = "returned" /\ calls[n].h # Last(handlers)) =>
                        /\ n < Len(calls)
                        /\ calls[n + 1].op = "gate"
                        /\ ~IsAI(calls[n + 1])
                /\ (pc = "returned" /\ Len(calls) = 1) => result.should_continue

Loaded ==
    CASE env.loaded = "Handler"  -> handlers
      [] env.loaded = "Service"  -> services
      [] env.loaded = "Provider" -> services[1].providers
      [] env.loaded = "Trigger"  -> triggers
      [] OTHER                   -> <<>>

\* class i's unit is in the loaded list
InLoaded(i) == \E n \in 1..Len(Loaded) : Loaded[n].name = i

\* the place of class i's unit in the loaded list
Place(i) == CHOOSE n \in 1..Len(Loaded) : Loaded[n].name = i

\* class i declares default 50 and {NAME}_PRIORITY is 5
LoweredTo5(i) == env.units[i].default = 50 /\ env.units[i].priority = "5"

\* class j has no override and declares a default of 6 or more
DefaultAtLeast6(j) == env.units[j].priority = None /\ env.units[j].default >= 6

\* in a list of the given kind every unit lowered from 50 to 5 comes after
\* every sibling left at a default of 6 or more
SortsBelow(kind) ==
    env.loaded = kind =>
        \A i, j \in UnitIds :
            (LoweredTo5(i) /\ DefaultAtLeast6(j) /\ InLoaded(j)) =>
                InLoaded(i) /\ Place(i) > Place(j)

\* what holds of the kinds that read {NAME}_PRIORITY
OverrideSortsBelow == SortsBelow("Handler") /\ SortsBelow("Service") /\ SortsBelow("Provider")

\* C20: for a unit of any kind (Handler, Service, Provider, Trigger) whose
\* declared default priority is 50, {NAME}_PRIORITY=5 makes discovery place
\* it after every sibling whose un-overridden default priority is 6 or more.
C20_OverrideSortsBelow ==
    /\ SortsBelow("Handler")
    /\ SortsBelow("Service")
    /\ SortsBelow("Provider")
    /\ SortsBelow("Trigger")

\* the kinds whose load reads {NAME}_PRIORITY
ReadsPriority == env.loaded \in {"Handler", "Service", "Provider"}

\* class i constructs, is not disabled and has its credential
Loadable(i) ==
    /\ ~env.units[i].raises
    /\ env.units[i].enabled = None
    /\ Truthy(env.units[i].api_key)

\* C21: for handlers, services and providers the priority after loading is
\* within 0..100: an integer override below 0 becomes 0, one above 100
\* becomes 100, one in range is used as it is, and a non-integer or empty
\* override leaves the declared default, without aborting the load.
C21_ClampedOrDefault ==
    ReadsPriority =>
        /\ \A i \in UnitIds : Loadable(i) => (InLoaded(i) /\ env.error = None)
        /\ \A n \in 1..Len(Loaded) :
            LET u   == env.units[Loaded[n].name]
                raw == u.priority
                p   == Loaded[n].priority
            IN  /\ raw # None => p \in 0..100
                /\ raw = "-5" => p = 0
                /\ raw = "200" => p = 100
                /\ raw = "5" => p = 5
                /\ raw \in {"abc", "", None} => p = u.default

\* handlers were loaded from classes with the overrides -5, 200 and abc
C21_Witness ==
    /\ env.loaded = "Handler"
    /\ Len(handlers) = NumUnits
    /\ \E i, j, k \in UnitIds :
        /\ env.units[i].priority = "-5"
        /\ env.units[j].priority = "200"
        /\ env.units[k].priority = "abc"

\* {NAME}_ENABLED of class i is set to false
Disabled(i) == env.units[i].enabled # None /\ Lower(env.units[i].enabled) = "false"

\* after a load of the given kind no disabled class has a unit in the list,
\* and every class that constructs and has its credential and whose
\* {NAME}_ENABLED is unset has one
EnabledRespected(kind) ==
    env.loaded = kind =>
        \A i \in UnitIds :
            /\ Disabled(i) => ~InLoaded(i)
            /\ Loadable(i) => InLoaded(i)

\* what holds of the kinds that read {NAME}_ENABLED
EnabledReadByHandlersAndTriggers ==
    EnabledRespected("Handler") /\ EnabledRespected("Trigger")

\* C22: for every kind (Handler, Service, Provider, Trigger) a unit whose
\* {NAME}_ENABLED is set to false is absent from the list discovery returns,
\* and a unit whose variable is unset is treated as enabled.
C22_DisabledIsAbsent ==
    /\ EnabledRespected("Handler")
    /\ EnabledRespected("Service")
    /\ EnabledRespected("Provider")
    /\ EnabledRespected("Trigger")

\* the place of class i in the scan
ScanPlace(i) == CHOOSE n \in 1..Len(env.order) : env.order[n] = i

\* the loaded list is in descending priority, equal priorities in scan order
DescendingStable ==
    \A n \in 1..(Len(Loaded) - 1) :
        \/ Loaded[n].priority > Loaded[n + 1].priority
        \/ /\ Loaded[n].priority = Loaded[n + 1].priority
           /\ ScanPlace(Loaded[n].name) < ScanPlace(Loaded[n + 1].name)

\* C23: the loads of handlers, triggers, services and providers return their
\* units in descending priority, units of equal priority in discovery order,
\* and a second load from the same classes and environment returns the same
\* units in the same order.
C23_StableAndRepeatable ==
    /\ DescendingStable
    /\ env.loads = 2 => Loaded = env.before

\* a second load returned three units: the class found second first, then the
\* two classes of equal priority in the order they were found
C23_Witness ==
    /\ env.loads = 2
    /\ Len(Loaded) = 3
    /\ Loaded[1].name = 2
    /\ Loaded[2].name = 1
    /\ Loaded[3].name = 3
    /\ Loaded[2].priority = Loaded[3].priority

\* class i is one a load of the loaded kind has to return: its constructor
\* returns, it is not disabled (handlers, triggers), it has its credential
\* (providers) or a provider with one (services)
Expected(i) ==
    /\ ~env.units[i].raises
    /\ env.loaded \in {"Handler", "Trigger"} => ~Disabled(i)
    /\ env.loaded \in {"Service", "Provider"} => Truthy(env.units[i].api_key)

\* C24: in the loads of handlers, triggers, providers and services a unit
\* whose construction raises is left out and every sibling that constructs
\* and is enabled is in the result, in priority order: a failing unit never
\* aborts the load of the others.
C24_FailureIsExcluded ==
    env.loaded # "nothing" =>
        /\ \A i \in UnitIds :
            /\ env.units[i].raises => ~InLoaded(i)
            /\ Expected(i) => (InLoaded(i) /\ env.error = None)
        /\ DescendingStable

\* handlers were loaded: the constructor of the class found first raised and
\* the two classes found after it are in the list
C24_Witness ==
    /\ env.loaded = "Handler"
    /\ env.units[1].raises
    /\ Len(handlers) = 2
    /\ InLoaded(2)
    /\ InLoaded(3)

\* C25: a provider whose credential variable is unset or empty is never
\* instantiated and is not in its service's provider list; that is no error
\* and the sibling providers with a credential are loaded.
C25_NoCredentialNoProvider ==
    env.loaded = "Provider" =>
        /\ env.error = None
        /\ \A i \in UnitIds :
            /\ ~Truthy(env.units[i].api_key) =>
                    (i \notin env.constructed /\ ~InLoaded(i))
            /\ (Truthy(env.units[i].api_key) /\ ~env.units[i].raises) =>
                    (i \in env.constructed /\ InLoaded(i))

\* providers were loaded: one class has no credential variable, one an empty
\* one, and the third class, with a credential, is the provider list
C25_Witness ==
    /\ env.loaded = "Provider"
    /\ \E i, j \in UnitIds : env.units[i].api_key = None /\ env.units[j].api_key = ""
    /\ Len(services[1].providers) = 1

(***************************************************************************)
(* Properties of interleaved runs (specification SpecRuns)                 *)
(***************************************************************************)
\* the context c shows what run r did itself and nothing else: it is stopped
\* exactly if r stopped it, and holds data exactly if a process of r wrote it
OwnEffectsOnly(r, c) ==
    /\ c.should_continue = ~runs[r].stopped
    /\ c.data = IF runs[r].processed THEN Put(EmptyData, "handled", "yes") ELSE EmptyData

\* C26: every call of run constructs a new context with should_continue true
\* and empty data, and the contexts of different runs, one after the other or
\* interleaved, share nothing: a stop or a data write of one run is never
\* seen in the context of another.
C26_FreshUnsharedContext ==
    \A r \in RunIds :
        /\ runs[r].pc # "idle" =>
            /\ OwnEffectsOnly(r, ContextOf(r))
            /\ \A q \in RunIds \ {r} : runs[q].pc # "idle" => runs[q].ctx # runs[r].ctx
        /\ runs[r].pc = "returned" => OwnEffectsOnly(r, runs[r].result)

\* one run has stopped its context and written data while another run, in the
\* middle of its loop, holds a context that is neither stopped nor written
C26_Witness ==
    /\ runs[1].stopped
    /\ runs[1].processed
    /\ runs[1].pc = "done"
    /\ runs[2].pc = "gate"
    /\ ContextOf(2) = PipelineContext
    /\ ~ContextOf(1).should_continue

(***************************************************************************)
(* Properties of the shared histories (specification SpecStores)           *)
(***************************************************************************)
\* the history of the chat after the first k appends
HistoryAfter(k) == Window(SubSeq(stores.appended, 1, k))

\* C27: add_message and get_history of a shared per-chat history are atomic
\* with respect to each other under any interleaving of concurrent callers:
\* no append is lost, and get_history returns the history as it was after
\* some prefix of the appends, in append order.
C27_AtomicAppendAndRead ==
    /\ stores.deque = HistoryAfter(Len(stores.appended))
    /\ \A c \in CallerIds :
        (callers[c].returned /\ callers[c].op = "get_history") =>
            \E k \in callers[c].since..callers[c].until :
                callers[c].result = Limited(HistoryAfter(k), callers[c].limit)
    /\ \A c \in CallerIds :
        (callers[c].returned /\ callers[c].op = "add_message") =>
            \E k \in 1..Len(stores.appended) : stores.appended[k] = callers[c].message
    /\ \A c, d \in CallerIds :
        (callers[c].pc \in {"append", "copy", "release"}
         /\ callers[d].pc \in {"append", "copy", "release"}) => c = d

\* a get_history that was called while another caller was appending to a full
\* window has returned the whole window as it was after that append
C27_Witness ==
    /\ callers[2].returned
    /\ callers[2].op = "get_history"
    /\ callers[2].since < callers[2].until
    /\ Len(stores.appended) > MaxMessages
    /\ callers[2].result = HistoryAfter(callers[2].until)
    /\ Len(callers[2].result) = MaxMessages

(***************************************************************************)
(* Properties of the video handler's process (SpecBot)                     *)
(***************************************************************************)
\* the replies the video handler sent
VideoReplies ==
    LET ByVideo(r) == r.by = "VIDEO_DOWNLOAD" IN SelectSeq(chat, ByVideo)

\* the pipeline's last call was the video handler's process, which called
\* get_video_url; ctx is the context as run has it after that call
VideoActed ==
    /\ Len(calls) > 0
    /\ calls[Len(calls)].op = "process"
    /\ calls[Len(calls)].h.name = "VIDEO_DOWNLOAD"
    /\ route.called

\* the video handler's process call, once VideoActed
VideoCall == calls[Len(calls)]

\* ctx.data[k] is v
DataIs(k, v) == k \in DOMAIN ctx.data /\ ctx.data[k] = v

\* the NoMatch outcome: no reply, video_url_found = False, the pipeline goes on
NoMatchEffects ==
    /\ VideoCall.out = "return"
    /\ VideoReplies = <<>>
    /\ DataIs("video_url_found", "False")
    /\ "video_error" \notin DOMAIN ctx.data
    /\ ctx.should_continue

\* the ProvidersExhausted outcome: one 'providers failed' reply, video_error
\* = 'providers_failed', the pipeline stopped
ProvidersExhaustedEffects ==
    /\ VideoCall.out = "return"
    /\ VideoReplies = <<[by |-> "VIDEO_DOWNLOAD", what |-> "providers_failed"]>>
    /\ DataIs("video_error", "providers_failed")
    /\ "video_url_found" \notin DOMAIN ctx.data
    /\ ~ctx.should_continue

\* process raised out of a reply call: nothing was sent, ctx.stop() was not
\* called, and run stopped the context under stop_on_error only
VideoReplyFailed ==
    /\ VideoCall.out = "raise"
    /\ ~VideoCall.stop
    /\ VideoReplies = <<>>
    /\ ctx.should_continue = ~stop_on_error

\* C28: the three routing outcomes map to distinct effects: NoMatch sends no
\* reply, sets video_url_found = False and leaves should_continue true;
\* ProvidersExhausted sends exactly one 'providers failed' reply, sets
\* video_error = 'providers_failed' and stops the pipeline; Resolved always
\* ends with the pipeline stopped.
C28_OutcomeEffects ==
    VideoActed =>
        CASE route.result.kind = "none"             -> NoMatchEffects
          [] route.result.kind = "providers_failed" -> ProvidersExhaustedEffects
          [] route.result.kind = "resolved"         ->
                DataIs("video_url_found", "True") /\ ~ctx.should_continue

\* C28, amended: NoMatch sends no reply, sets video_url_found = False and
\* leaves should_continue true; ProvidersExhausted sends exactly one
\* 'providers failed' reply, sets video_error = 'providers_failed' and stops
\* the pipeline, unless that reply call raises, and then nothing is sent,
\* video_error is not set and the pipeline is stopped under stop_on_error
\* only; Resolved ends with the pipeline stopped and exactly one reply (the
\* video or an error text), unless the error reply of the except clause
\* raises, and then nothing is sent and the pipeline is stopped under
\* stop_on_error only.
C28_OutcomeEffectsOrError ==
    VideoActed =>
        CASE route.result.kind = "none"             -> NoMatchEffects
          [] route.result.kind = "providers_failed" ->
                \/ ProvidersExhaustedEffects
                \/ VideoReplyFailed /\ "video_error" \notin DOMAIN ctx.data
          [] route.result.kind = "resolved"         ->
                /\ DataIs("video_url_found", "True")
                /\ \/ /\ VideoCall.out = "return"
                      /\ VideoCall.stop
                      /\ ~ctx.should_continue
                      /\ Len(VideoReplies) = 1
                   \/ VideoReplyFailed

\* the router reported that every provider failed, and the video handler sent
\* its one reply and stopped the pipeline
C28_Witness ==
    /\ VideoActed
    /\ route.result.kind = "providers_failed"
    /\ ProvidersExhaustedEffects
    /\ VideoCall.stop

(***************************************************************************)
(* Properties of the AI handler's process (SpecBot)                        *)
(***************************************************************************)
\* the n-th call of the run is the AI handler's process
IsAIProcess(n) == IsAI(calls[n]) /\ calls[n].op = "process"

\* nothing was called after the n-th call, the context is stopped, and so is
\* the context run returned
StoppedAt(n) ==
    /\ n = Len(calls)
    /\ pc \in {"done", "returned"} => ~ctx.should_continue
    /\ pc = "returned" => ~result.should_continue

PayloadStored ==
    /\ "ai_trigger" \in DOMAIN ctx.data
    /\ "ai_user_message" \in DOMAIN ctx.data
    /\ ctx.data["ai_user_message"] \in {"", "payload"}

\* run is about to call the AI handler's process
AIProcessInvoked == pc = "process" /\ Current.name = "AI_HANDLER"

\* C30: whenever the pipeline invokes the AI handler's process,
\* data['ai_user_message'] is a string, never None, also when the matching
\* trigger's extractor returned None: the gate returns true only after
\* storing the trigger and the payload, and the 'No user message in context
\* data' branch, which returns without a reply, is never taken.
C30_UserMessageNeverNone ==
    /\ AIProcessInvoked => PayloadStored
    /\ \A n \in 1..Len(calls) :
        /\ (IsAI(calls[n]) /\ calls[n].op = "gate" /\ calls[n].out = "true") =>
                PayloadStored
        /\ (IsAIProcess(n) /\ calls[n].out = "return") => AIReplies # <<>>

\* run is about to call the AI handler's process for a message whose matching
\* trigger's extractor returned None: the payload stored is ""
C30_Witness ==
    /\ AIProcessInvoked
    /\ Message.trigger = "null"
    /\ PayloadStored
    /\ ctx.data["ai_user_message"] = ""

(***************************************************************************)
(* Containment of trigger errors (specification SpecTriggers)              *)
(***************************************************************************)
\* the n-th call of the observed check raised
TriggerCallRaised(n) == TriggerLog[n].out = "raise"

\* C31: a trigger whose should_trigger or extract_user_message raises is
\* contained: the exception does not reach the caller of check_triggers, and
\* the triggers below it are still checked: the call made after the raising
\* one is should_trigger of the next trigger of the list.
C31_TriggerErrorContained ==
    check.called =>
        /\ ~check.result.raised
        /\ \A n \in 1..Len(TriggerLog) :
            (TriggerCallRaised(n) /\ TriggerPosition(TriggerLog[n].trigger) < Len(triggers))
            => /\ n < Len(TriggerLog)
               /\ TriggerLog[n + 1] \in
                    {[trigger |-> triggers[TriggerPosition(TriggerLog[n].trigger) + 1].name,
                      op |-> "should_trigger", out |-> st] : st \in ShouldTriggerOutcomes}

\* the predicate of the first trigger raised, the extractor of the second
\* raised, and the third trigger was returned with its payload
C31_Witness ==
    /\ check.called
    /\ Len(triggers) = 3
    /\ Len(TriggerLog) = 5
    /\ TriggerLog[1].op = "should_trigger" /\ TriggerCallRaised(1)
    /\ TriggerLog[3].op = "extract" /\ TriggerCallRaised(3)
    /\ check.result.matched
    /\ check.result.trigger = triggers[3].name
    /\ check.result.payload = "payload"

(***************************************************************************)
(* Properties of the summary history (SpecBot)                             *)
(***************************************************************************)
\* the summary handler is in the pipeline
SummaryLoaded == \E k \in 1..Len(handlers) : handlers[k].name = "SUMMARY_HANDLER"

\* the inbound message has text or a caption without a summary keyword and
\* arrives while the summary processor is initialised
Storable ==
    /\ Message.present
    /\ Message.content \in {"text", "caption"}
    /\ ~Message.keyword
    /\ bot.summary_processor
    /\ SummaryLoaded

\* the summary handler's gate was called for the message
SummaryGateCalled ==
    \E n \in 1..Len(calls) : calls[n].op = "gate" /\ calls[n].h.name = "SUMMARY_HANDLER"

\* the inbound message is the newest entry of the chat's history
MessageStored ==
    bot.history # <<>> /\ Last(bot.history) = StoredMessage(Message)

\* C32: every message with text or caption that is passed to pipeline.run,
\* contains no summary keyword and arrives while the summary processor is
\* initialised is appended to the chat's history, whatever the other handlers
\* of the pipeline do with it.
C32_EveryTextMessageStored ==
    (pc = "returned" /\ Storable) => MessageStored

\* what the code does: a storable message whose sender is known (or that is
\* forwarded) is stored when the summary handler's gate is reached
StoredWhenGateReached ==
    (pc = "returned" /\ Storable /\ SummaryGateCalled
        /\ (Message.from_user \/ Message.forwarded)) => MessageStored

(***************************************************************************)
(* Properties of the summary gate (specification SpecSummary)              *)
(***************************************************************************)
\* text contains keyword kw whatever the case of its letters
ContainsIgnoringCase(t, kw) ==
    \E i \in 0..(Len(t) - Len(kw)) :
        \A k \in 1..Len(kw) : LowerChar(t[i + k]) = LowerChar(kw[k])

\* the text holds a summary keyword, case-insensitively
HoldsKeyword(t) ==
    \E k \in 1..Len(DEFAULT_TRIGGER_KEYWORDS) :
        ContainsIgnoringCase(t, DEFAULT_TRIGGER_KEYWORDS[k])

\* the entries stored for the chat
StoredEntries ==
    IF SummaryChat \in DOMAIN stores.histories THEN stores.histories[SummaryChat] ELSE <<>>

\* the last gate call appended its message to the chat's history
GateStored ==
    stores.histories =
        ManagerAddMessage(callers.before, SummaryChat, StoredText(callers.message))

DefaultPipeline ==
    /\ stop_on_error
    /\ Len(handlers) = Cardinality(HandlerNames)
    /\ \A k \in 1..Len(handlers) :
        handlers[k].priority = DefaultHandlerPriority(handlers[k].name)

\* the message has text with a summary keyword and an AI trigger and no
\* recognised video URL
SummaryAndAIMessage ==
    /\ Message.present
    /\ Message.content = "text"
    /\ Message.keyword
    /\ Message.trigger # "none"
    /\ Message.text.matches = {}

\* neither the gate nor process of the AI handler was called
AINotInvoked == \A n \in 1..Len(calls) : ~IsAI(calls[n])

\* C34: with the default priorities and stop_on_error, a message with a
\* summary keyword that also matches an AI trigger and holds no recognised
\* video URL is handled by the summary handler only: the AI handler's gate
\* and process are never invoked for it.
C34_SummaryOnly ==
    (DefaultPipeline /\ SummaryAndAIMessage) => AINotInvoked

\* C34, amended: the same, for a summary handler whose processor was
\* initialised; the summary handler's gate returns True and its process is
\* the last call of the run.
C34_SummaryOnlyWhenInitialised ==
    (DefaultPipeline /\ SummaryAndAIMessage /\ bot.summary_processor) =>
        /\ AINotInvoked
        /\ pc = "returned" =>
            /\ Last(calls).op = "process"
            /\ Last(calls).h.name = "SUMMARY_HANDLER"
            /\ ~result.should_continue

\* the run over such a message has returned, with an AI processor that was
\* ready: the video handler found no URL, the summary handler sent the
\* summary and the AI handler was not asked
C34_Witness ==
    /\ pc = "returned"
    /\ DefaultPipeline
    /\ SummaryAndAIMessage
    /\ bot.summary_processor
    /\ bot.processor
    /\ Len(calls) = 4
    /\ chat = <<[by |-> "SUMMARY_HANDLER", what |-> "summary"]>>
    /\ AINotInvoked

(***************************************************************************)
(* Properties of the managers (specification SpecManagers)                 *)
(***************************************************************************)
\* the history the manager holds for the chat, empty without an entry
HistoryOf(h, chat_id) == IF chat_id \in DOMAIN h THEN h[chat_id] ELSE <<>>

\* the last n elements of s, all of them when there are fewer
LastOf(s, n) == IF Len(s) > n THEN SubSeq(s, Len(s) - n + 1, Len(s)) ELSE s

\* the entries are in the order they were passed to add_message
InAppendOrder(s) == \A i, j \in 1..Len(s) : i < j => s[i].n < s[j].n

\* the last call was an add_message that returned
Added == callers.op = "add_message" /\ ~callers.raised

\* C35: each chat's history holds at most max_messages entries, the newest
\* of those appended since the chat was cleared, oldest first; an append to
\* a full history evicts exactly the oldest entry and lets the others of the
\* manager alone; get_history returns the retained entries oldest to newest
\* (for the HistoryManager the last limit of them).
C35_RollingWindow ==
    /\ \A c \in ChatIds :
        /\ Len(HistoryOf(stores.histories, c)) <= MaxMessages
        /\ HistoryOf(stores.histories, c) = LastOf(stores.appended[c], MaxMessages)
        /\ InAppendOrder(HistoryOf(stores.histories, c))
    /\ Added =>
        LET old == HistoryOf(callers.before, callers.chat_id)
            new == HistoryOf(stores.histories, callers.chat_id)
        IN  /\ new = (IF Len(old) = MaxMessages THEN Tail(old) ELSE old) \o callers.result
            /\ \A c \in ChatIds \ {callers.chat_id} :
                HistoryOf(stores.histories, c) = HistoryOf(callers.before, c)
    /\ callers.op = "get_history" =>
        /\ callers.result =
            (IF callers.limit = 0 THEN HistoryOf(callers.before, callers.chat_id)
             ELSE LastOf(HistoryOf(callers.before, callers.chat_id), callers.limit))
        /\ InAppendOrder(callers.result)

\* an append to a full history has evicted its oldest entry
C35_Witness ==
    /\ Added
    /\ Len(HistoryOf(callers.before, callers.chat_id)) = MaxMessages
    /\ Len(HistoryOf(stores.histories, callers.chat_id)) = MaxMessages
    /\ HistoryOf(stores.histories, callers.chat_id)[1]
        = HistoryOf(callers.before, callers.chat_id)[2]

\* get_stats of the histories h
TotalChats(h) == ManagerGetStats(h).total_chats

TotalMessages(h) == ManagerGetStats(h).total_messages

\* C36: get_history is a pure read: a call for any chat id, also one without
\* stored messages, leaves the manager's state unchanged, so get_stats
\* returns the same total_chats and total_messages before and after it.
C36_GetHistoryIsPure ==
    callers.op = "get_history" =>
        /\ stores.histories = callers.before
        /\ TotalChats(stores.histories) = TotalChats(callers.before)
        /\ TotalMessages(stores.histories) = TotalMessages(callers.before)

\* what the code does: get_history changes no stored message, and changes
\* nothing at all for a chat id the manager has an entry for
GetHistoryKeepsMessages ==
    callers.op = "get_history" =>
        /\ \A c \in ChatIds : HistoryOf(stores.histories, c) = HistoryOf(callers.before, c)
        /\ TotalMessages(stores.histories) = TotalMessages(callers.before)
        /\ callers.chat_id \in DOMAIN callers.before => stores.histories = callers.before
        /\ callers.chat_id \notin DOMAIN callers.before =>
                TotalChats(stores.histories) = TotalChats(callers.before) + 1

(***************************************************************************)
(* Properties of the conversation history (specification SpecProcessor)    *)
(***************************************************************************)
\* the conversation history of the chat
Conversation == HistoryOf(stores.histories, ConversationChat)

\* every user entry is directly followed by the model entry of the same
\* call, and every model entry directly follows its user entry
AdjacentPairs(s) ==
    \A i \in 1..Len(s) :
        /\ s[i].role = "user" =>
            i < Len(s) /\ s[i + 1] = [role |-> "model", n |-> s[i].n]
        /\ s[i].role = "model" =>
            i > 1 /\ s[i - 1] = [role |-> "user", n |-> s[i].n]

C38_NeverEmpty == Len(services) >= 1

\* the names of the services of a list, in order
NamesOf(svcs) == [k \in 1..Len(svcs) |-> svcs[k].name]

\* remove_service returns true exactly when a service has the name, and then
\* the list is the old one without the first service of that name; otherwise
\* the list is unchanged
RemoveServiceContract ==
    \A name \in ServiceIds :
        LET out   == RouterRemoveService(services, name)
            found == {i \in 1..Len(services) : services[i].name = name}
        IN  /\ out.result <=> (found # {})
            /\ found = {} => out.services = services
            /\ found # {} =>
                LET i == CHOOSE i \in found : \A j \in found : i <= j
                IN  /\ Len(out.services) = Len(services) - 1
                    /\ \A k \in 1..Len(out.services) :
                        out.services[k] = services[IF k < i THEN k ELSE k + 1]

====
